---------------------------- MODULE Spec2Model ----------------------------
(***************************************************************************)
(* A model of mpv-socket (src/src/lib.rs): one MpvSocket connected to a    *)
(* remote mpv over a duplex channel.  The client is sequential and blocks  *)
(* on reads; the remote runs concurrently and appends lines to the inbound *)
(* stream.  A client step is everything the code does between two blocking *)
(* reads.                                                                  *)
(***************************************************************************)
EXTENDS Integers, Sequences, FiniteSets, TLC

VARIABLES
    closed,           \* MpvSocket.closed
    last_request_id,  \* MpvSocket.last_request_id, a Wrapping<i64> (4 limbs of 16 bits)
    iter,             \* the live EventIter (with its adaptors), <<>> when there is none
    pc,               \* where the client is: "connect", "failed" (connect returned an error),
                      \* "idle", "await", "observe_next", "drop_next", "next"
    call,             \* the send_recv_command call in progress and the operation it belongs to
    inbound,          \* what the remote has sent and the client has not read yet
    remote,           \* the remote end of the channel: "unconnected", "open", "gone", "eof"
    pending,          \* the last request the remote has received, until it answers it
    written,          \* the requests written since the current operation or subscription began
    prev_written,     \* when `written` was reset: the id of the last request written before,
                      \* and the properties of the subscription dropped just before a new
                      \* one that the new one does not observe
    nreq,             \* number of request ids allocated so far
    exhausted,        \* an iterator of this socket has returned None
    terminal,         \* the event that closed the socket: "", "shutdown", "end-file"
    ret,              \* what the last client operation returned, NoRet while one is running
    last_read,        \* the last read of the running send_recv_command or pull
    tries_left,       \* connect's tries_left; 0 once connect has returned a socket
    ffi               \* the call of mpv_socket_observe_property_f64 of the C API: where it
                      \* is, the values it has passed to the callback, what it returns

vars == << closed, last_request_id, iter, pc, call, inbound, remote, pending,
           written, prev_written, nreq, exhausted, terminal, ret, last_read, tries_left,
           ffi >>

-----------------------------------------------------------------------------
(* Bounds of the model. *)

\* Request ids one connection allocates.
MaxRequests == 4
\* Lines waiting unread in the channel.
MaxInbound == 2

-----------------------------------------------------------------------------
(* Option<T>: None is <<>>, Some(x) is <<x>>. *)

None == << >>
Some(x) == << x >>
IsSome(o) == o # << >>
Unwrap(o) == o[1]

-----------------------------------------------------------------------------
(* Value (serde_json::Value), tagged.  A JSON number is "Int" or "Float". *)

Null == [t |-> "Null", v |-> 0]
Bool(b) == [t |-> "Bool", v |-> b]
Num(n) == [t |-> "Int", v |-> n]
Dbl(n) == [t |-> "Float", v |-> n]
Str(s) == [t |-> "String", v |-> s]
\* An integer above i64::MAX, which serde_json holds as a u64.
UInt == [t |-> "UInt", v |-> 0]
Array == [t |-> "Array", v |-> 0]
Object == [t |-> "Object", v |-> 0]

-----------------------------------------------------------------------------
(* Result<T, Error>.  e is the kind of the error, m its text, c the raw OS *)
(* error code of an I/O error.                                             *)

Ok(x) == [k |-> "Ok", v |-> x, e |-> "", m |-> "", c |-> 0]
Err(kind, text, code) == [k |-> "Err", v |-> Null, e |-> kind, m |-> text, c |-> code]
IsOk(r) == r.k = "Ok"
IsErr(r) == r.k = "Err"

ERROR_NO_DATA == 232
ERROR_PIPE_BUSY == 231
\* An OS error code of a failed open that is not ERROR_PIPE_BUSY.
ERROR_FILE_NOT_FOUND == 2
\* Another OS error code of a failed read or write, one the library gives no meaning to.
ERROR_PIPE_NOT_CONNECTED == ERROR_NO_DATA + 1

SocketClosed == Err("closed", "mpv socket is closed", 0)
IoError(code) == Err("io", "", code)
ParseError == Err("parse", "", 0)
MpvError(error) == Err("mpv", error, 0)
ConnectError(code) == Err("connect", "failed to open mpv socket", code)
UnknownResponse == Err("unknown", "unknown mpv response", 0)
TypeMismatch(expected) == Err("type", expected, 0)

-----------------------------------------------------------------------------
(* i64 in two's complement, most significant limb first. *)

Limb == 65536
I64(n) == << 0, 0, 0, n >>
I64Max == << 32767, 65535, 65535, 65535 >>
I64Min == << 32768, 0, 0, 0 >>

\* Wrapping<i64> + Wrapping<i64>: limb-wise addition, the carry out of the top limb dropped.
WrappingAdd(x, y) ==
    LET s4 == x[4] + y[4]
        s3 == x[3] + y[3] + (s4 \div Limb)
        s2 == x[2] + y[2] + (s3 \div Limb)
        s1 == x[1] + y[1] + (s2 \div Limb)
    IN  << s1 % Limb, s2 % Limb, s3 % Limb, s4 % Limb >>

\* RequestId::new
RequestId_new == I64(0)

\* An addition that saturates at i64::MAX.
RequestId_advance_saturating(self, num) ==
    IF self = I64Max THEN [self |-> self, out |-> self]
    ELSE [self |-> WrappingAdd(self, num), out |-> WrappingAdd(self, num)]

\* RequestId::advance: self.0 = self.0 + Wrapping(num); returns the new value.
RequestId_advance(self, num) ==
    [self |-> WrappingAdd(self, num), out |-> WrappingAdd(self, num)]

\* RequestId::next
RequestId_next(self) == RequestId_advance(self, I64(1))

-----------------------------------------------------------------------------
(* Command, Request and their wire form. *)

ClientName == [tag |-> "ClientName", id |-> 0, property |-> "", value |-> Null]
GetTimeUs == [tag |-> "GetTimeUs", id |-> 0, property |-> "", value |-> Null]
GetProperty(p) == [tag |-> "GetProperty", id |-> 0, property |-> p, value |-> Null]
SetProperty(p, v) == [tag |-> "SetProperty", id |-> 0, property |-> p, value |-> v]
\* An observe command that counts the observers from 0.
ObserveProperty_from_zero(i, p) ==
    [tag |-> "ObserveProperty", id |-> i - 1, property |-> p, value |-> Null]
ObserveProperty(i, p) == [tag |-> "ObserveProperty", id |-> i, property |-> p, value |-> Null]
UnobserveProperty(i) == [tag |-> "UnobserveProperty", id |-> i, property |-> "", value |-> Null]
RequestLogMessages == [tag |-> "RequestLogMessages", id |-> 0, property |-> "", value |-> Null]
GetVersion == [tag |-> "GetVersion", id |-> 0, property |-> "", value |-> Null]

\* Command::name
Command_name(c) ==
    CASE c.tag = "ClientName" -> "client_name"
      [] c.tag = "GetTimeUs" -> "get_time_us"
      [] c.tag = "GetProperty" -> "get_property"
      [] c.tag = "SetProperty" -> "set_property"
      [] c.tag = "ObserveProperty" -> "observe_property"
      [] c.tag = "UnobserveProperty" -> "unobserve_property"
      [] c.tag = "RequestLogMessages" -> "request_log_messages"
      [] c.tag = "GetVersion" -> "get_version"

\* A Command::params that gives the parameters last to first.
Command_params_reversed(c) ==
    CASE c.tag = "ClientName" -> << >>
      [] c.tag = "GetTimeUs" -> << >>
      [] c.tag = "GetProperty" -> << Str(c.property) >>
      [] c.tag = "SetProperty" -> << c.value, Str(c.property) >>
      [] c.tag = "ObserveProperty" -> << Str(c.property), Num(c.id) >>
      [] c.tag = "UnobserveProperty" -> << Num(c.id) >>
      [] c.tag = "RequestLogMessages" -> << >>
      [] c.tag = "GetVersion" -> << >>

\* Command::params
Command_params(c) ==
    CASE c.tag = "ClientName" -> << >>
      [] c.tag = "GetTimeUs" -> << >>
      [] c.tag = "GetProperty" -> << Str(c.property) >>
      [] c.tag = "SetProperty" -> << Str(c.property), c.value >>
      [] c.tag = "ObserveProperty" -> << Num(c.id), Str(c.property) >>
      [] c.tag = "UnobserveProperty" -> << Num(c.id) >>
      [] c.tag = "RequestLogMessages" -> << >>
      [] c.tag = "GetVersion" -> << >>

\* Serialize for Command: the sequence [name, params...].
Command_serialize(c) == << Str(Command_name(c)) >> \o Command_params(c)

\* Request, and the JSON object serde derives for it.
Request(c, rid) == [command |-> c, request_id |-> rid]
Request_serialize(r) ==
    [command |-> Command_serialize(r.command), request_id |-> r.request_id]


-----------------------------------------------------------------------------
(* Lines of the inbound stream.  A line is the JSON text the remote sent,  *)
(* kept as the fields the two envelopes look at; json is FALSE for a line  *)
(* that is no JSON object.  A data field that is missing and one that is   *)
(* null both read as Null.                                                 *)

Line(event, request_id, error, data, id, name, reason) ==
    [json |-> TRUE, event |-> event, request_id |-> request_id, error |-> error,
     data |-> data, id |-> id, name |-> name, reason |-> reason]

Malformed ==
    [json |-> FALSE, event |-> None, request_id |-> None, error |-> None,
     data |-> Null, id |-> None, name |-> None, reason |-> None]

ReplyLine(rid, error, data) == Line(None, Some(rid), error, data, None, None, None)
PropertyChangeLine(id, name, data, error) ==
    Line(Some("property-change"), None, error, data, Some(id), Some(name), None)
ShutdownLine(error) == Line(Some("shutdown"), None, error, Null, None, None, None)
EndFileLine(reason, error) == Line(Some("end-file"), None, error, Null, None, None, reason)
SeekLine == Line(Some("seek"), None, None, Null, None, None, None)
\* An event whose name the Event enum does not know.
UnknownEventLine == Line(Some("new-event"), None, None, Null, None, None, None)

\* Property: the names of the catalogue the model uses.
Properties == { "volume", "pause" }
\* Reason
Reasons == { "eof", "stop", "quit", "error", "redirect", "unknown" }

\* CommandResponse, by serde_json::from_str: every field is optional, so any JSON
\* object parses, an event included (its request_id is then None).
CommandResponse_from_str(line) ==
    IF line.json
    THEN Ok([request_id |-> line.request_id, error |-> line.error, data |-> line.data])
    ELSE ParseError

\* Event, internally tagged by "event" with kebab-case names; an unknown name is Other.
Event_from_tag(line) ==
    LET tag == Unwrap(line.event)
        ev(t) == [tag |-> t, name |-> "", data |-> Null, reason |-> None]
    IN  CASE tag = "property-change" ->
              IF IsSome(line.name) /\ Unwrap(line.name) \in Properties
              THEN Ok([tag |-> "PropertyChange", name |-> Unwrap(line.name),
                       data |-> line.data, reason |-> None])
              ELSE ParseError
          [] tag = "end-file" ->
              IF IsSome(line.reason) /\ Unwrap(line.reason) \notin Reasons
              THEN ParseError
              ELSE Ok([tag |-> "EndFile", name |-> "", data |-> Null, reason |-> line.reason])
          [] tag = "shutdown" -> Ok(ev("Shutdown"))
          [] tag = "seek" -> Ok(ev("Seek"))
          [] OTHER -> Ok(ev("Other"))

\* EventResponse, by serde_json::from_str: the flattened Event needs its tag.
EventResponse_from_str(line) ==
    IF ~line.json \/ line.event = None THEN ParseError
    ELSE LET event == Event_from_tag(line)
         IN  IF IsErr(event) THEN ParseError
             ELSE Ok([event |-> event.v, id |-> line.id, error |-> line.error])

-----------------------------------------------------------------------------
(* Typed extraction. *)

Types == { "Value", "bool", "u64", "i64", "f64", "String", "Vec", "Map" }

\* A TryFromValue::try_from whose f64 takes a float only.
TryFromValue_float_only(T, value) ==
    CASE T = "Value" -> Ok(value)
      [] T = "bool" -> IF value.t = "Bool" THEN Ok(value) ELSE TypeMismatch("bool")
      [] T = "u64" -> IF value.t = "UInt" \/ (value.t = "Int" /\ value.v >= 0)
                      THEN Ok(value) ELSE TypeMismatch("u64")
      [] T = "i64" -> IF value.t = "Int" THEN Ok(value) ELSE TypeMismatch("i64")
      [] T = "f64" -> IF value.t = "Float" THEN Ok(value) ELSE TypeMismatch("f64")
      [] T = "String" -> IF value.t = "String" THEN Ok(value) ELSE TypeMismatch("string")
      [] T = "Vec" -> IF value.t = "Array" THEN Ok(value) ELSE TypeMismatch("array")
      [] T = "Map" -> IF value.t = "Object" THEN Ok(value) ELSE TypeMismatch("object")

\* TryFromValue::try_from for the type named T: as_u64 takes an integer that is not
\* negative, as_i64 one that is not above i64::MAX, as_f64 every number.
TryFromValue(T, value) ==
    CASE T = "Value" -> Ok(value)
      [] T = "bool" -> IF value.t = "Bool" THEN Ok(value) ELSE TypeMismatch("bool")
      [] T = "u64" -> IF value.t = "UInt" \/ (value.t = "Int" /\ value.v >= 0)
                      THEN Ok(value) ELSE TypeMismatch("u64")
      [] T = "i64" -> IF value.t = "Int" THEN Ok(value) ELSE TypeMismatch("i64")
      [] T = "f64" -> IF value.t \in { "Int", "UInt", "Float" }
                      THEN Ok(Dbl(value.v)) ELSE TypeMismatch("f64")
      [] T = "String" -> IF value.t = "String" THEN Ok(value) ELSE TypeMismatch("string")
      [] T = "Vec" -> IF value.t = "Array" THEN Ok(value) ELSE TypeMismatch("array")
      [] T = "Map" -> IF value.t = "Object" THEN Ok(value) ELSE TypeMismatch("object")



-----------------------------------------------------------------------------
(* The lines of the remote. *)

\* The events the remote sends, and a line that is no JSON.
EventLines ==
    { PropertyChangeLine(1, "volume", Dbl(52), None),
      PropertyChangeLine(1, "volume", Null, None),
      PropertyChangeLine(2, "pause", Bool(TRUE), None),
      PropertyChangeLine(1, "volume", Dbl(52), Some("property unavailable")),
      ShutdownLine(None),
      ShutdownLine(Some("property unavailable")),
      SeekLine,
      UnknownEventLine,
      EndFileLine(None, None),
      Malformed }
    \cup { EndFileLine(Some(reason), None) : reason \in Reasons }

\* The data of a success reply to the request w.
ReplyData(w) ==
    LET name == w.command[1].v
    IN  CASE name = "client_name" -> { Str("ipc-1") }
          [] name \in { "get_time_us", "get_version" } -> { Num(7) }
          [] name = "get_property" ->
                IF w.command[2].v = "volume" THEN { Dbl(50) } ELSE { Bool(TRUE) }
          [] name = "set_property" -> { Null, Bool(TRUE) }
          [] OTHER -> { Null }

\* A remote that answers the request w with a request_id no request of the client has.
Replies_other_id(w) ==
    { ReplyLine(I64Min, Some("success"), d) : d \in ReplyData(w) }

\* The replies the remote gives to the request w.
Replies(w) ==
    { ReplyLine(w.request_id, Some("success"), d) : d \in ReplyData(w) }
    \cup { ReplyLine(w.request_id, Some("invalid parameter"), Null),
           ReplyLine(w.request_id, None, Null) }

-----------------------------------------------------------------------------
(* The channel. *)

\* The remote's choice of the text of a line is taken when the line is read: over
\* a channel that keeps the order this gives the runs that choosing it at the send
\* gives.  What waits in `inbound` is whether the line answers a request (reply) or
\* is an event or no JSON at all, and whether it arrived between the write of a
\* command and the read of the matching reply (during): the client was in
\* send_recv_command and the reply to its request was the next line of the stream.
Sent(reply, during) == [reply |-> reply, during |-> during]

\* The texts a line that waits in the channel can have.
Lines(sent) == IF sent.reply = None THEN EventLines ELSE Replies(Unwrap(sent.reply))

\* A read_until that gives up with an error while the channel is open and empty.
ReadOutcomes_timeout ==
    IF inbound # << >>
    THEN { [k |-> "line", line |-> l, c |-> 0, during |-> Head(inbound).during] :
              l \in Lines(Head(inbound)) }
    ELSE IF remote = "gone"
         THEN { [k |-> "zero", line |-> Malformed, c |-> 0, during |-> FALSE],
                [k |-> "error", line |-> Malformed, c |-> ERROR_PIPE_NOT_CONNECTED,
                 during |-> FALSE] }
    ELSE IF remote = "eof"
         THEN { [k |-> "zero", line |-> Malformed, c |-> 0, during |-> FALSE] }
    ELSE { [k |-> "error", line |-> Malformed, c |-> 0, during |-> FALSE] }

\* What a read_until gives: a line; once the remote is gone and the stream is empty,
\* a zero-length read or an I/O error, as the platform has it, and after a
\* zero-length read (the end of the stream, "eof") only zero-length reads; it
\* blocks (no outcome) while the channel is open and empty.
ReadOutcomes ==
    IF inbound # << >>
    THEN { [k |-> "line", line |-> l, c |-> 0, during |-> Head(inbound).during] :
              l \in Lines(Head(inbound)) }
    ELSE IF remote = "gone"
         THEN { [k |-> "zero", line |-> Malformed, c |-> 0, during |-> FALSE],
                [k |-> "error", line |-> Malformed, c |-> ERROR_PIPE_NOT_CONNECTED,
                 during |-> FALSE] }
    ELSE IF remote = "eof"
         THEN { [k |-> "zero", line |-> Malformed, c |-> 0, during |-> FALSE] }
    ELSE { }

\* What write_all and flush give: done, or an I/O error once the remote is gone.
WriteOutcomes ==
    IF remote = "open" THEN { Ok(Null) }
    ELSE { IoError(ERROR_NO_DATA), IoError(ERROR_PIPE_NOT_CONNECTED) }

NoRead == [by |-> "", k |-> "none", line |-> Malformed, c |-> 0, during |-> FALSE]

\* A read that takes the line behind the one it returns off the stream as well.
Consume_skips(by, rd) ==
    /\ inbound' = IF rd.k # "line" THEN inbound
                  ELSE IF Len(inbound) > 1 THEN Tail(Tail(inbound)) ELSE Tail(inbound)
    /\ remote' = IF rd.k = "zero" THEN "eof" ELSE remote
    /\ last_read' = [by |-> by, k |-> rd.k, line |-> rd.line, c |-> rd.c,
                     during |-> rd.during]

\* A read that leaves the line in the stream.
Consume_peek(by, rd) ==
    /\ inbound' = inbound
    /\ remote' = IF rd.k = "zero" THEN "eof" ELSE remote
    /\ last_read' = [by |-> by, k |-> rd.k, line |-> rd.line, c |-> rd.c,
                     during |-> rd.during]

\* The effect of a read by `by` on the stream: the line read is taken off it, and
\* a zero-length read is the end of the stream.
Consume(by, rd) ==
    /\ inbound' = IF rd.k = "line" THEN Tail(inbound) ELSE inbound
    /\ remote' = IF rd.k = "zero" THEN "eof" ELSE remote
    /\ last_read' = [by |-> by, k |-> rd.k, line |-> rd.line, c |-> rd.c,
                     during |-> rd.during]

-----------------------------------------------------------------------------
(* send_recv_command *)

\* A correlator that takes any reply for the reply awaited, whatever its request_id.
send_recv_command_loop_any(request, rd) ==
    IF rd.k = "error" THEN Some(IoError(rd.c))
    ELSE LET parsed == IF rd.k = "zero" THEN ParseError
                       ELSE CommandResponse_from_str(rd.line)
         IN  IF IsErr(parsed) THEN Some(parsed)
             ELSE LET response == parsed.v
                  IN  IF IsSome(response.request_id)
                      THEN IF response.error = Some("success") THEN Some(Ok(response.data))
                           ELSE IF IsSome(response.error)
                                THEN Some(MpvError(Unwrap(response.error)))
                           ELSE Some(UnknownResponse)
                      ELSE None

\* A correlator that takes a reply without an error field for a success.
send_recv_command_loop_lenient(request, rd) ==
    IF rd.k = "error" THEN Some(IoError(rd.c))
    ELSE LET parsed == IF rd.k = "zero" THEN ParseError
                       ELSE CommandResponse_from_str(rd.line)
         IN  IF IsErr(parsed) THEN Some(parsed)
             ELSE LET response == parsed.v
                  IN  IF response.request_id = Some(request.request_id)
                      THEN IF response.error \in { None, Some("success") }
                           THEN Some(Ok(response.data))
                           ELSE Some(MpvError(Unwrap(response.error)))
                      ELSE None

\* A correlator that takes a success reply without data for an unknown response.
send_recv_command_loop_needs_data(request, rd) ==
    IF rd.k = "error" THEN Some(IoError(rd.c))
    ELSE LET parsed == IF rd.k = "zero" THEN ParseError
                       ELSE CommandResponse_from_str(rd.line)
         IN  IF IsErr(parsed) THEN Some(parsed)
             ELSE LET response == parsed.v
                  IN  IF response.request_id = Some(request.request_id)
                      THEN IF response.error = Some("success") /\ response.data # Null
                           THEN Some(Ok(response.data))
                           ELSE IF IsSome(response.error) /\ response.error # Some("success")
                                THEN Some(MpvError(Unwrap(response.error)))
                           ELSE Some(UnknownResponse)
                      ELSE None

\* A loop of send_recv_command that skips a matching reply without an error field
\* as it skips a line that does not match.
send_recv_command_loop_skips_unknown(request, rd) ==
    IF rd.k = "error" THEN Some(IoError(rd.c))
    ELSE LET parsed == IF rd.k = "zero" THEN ParseError
                       ELSE CommandResponse_from_str(rd.line)
         IN  IF IsErr(parsed) THEN Some(parsed)
             ELSE LET response == parsed.v
                  IN  IF response.request_id = Some(request.request_id)
                      THEN IF response.error = Some("success") THEN Some(Ok(response.data))
                           ELSE IF IsSome(response.error)
                                THEN Some(MpvError(Unwrap(response.error)))
                           ELSE None
                      ELSE None

\* A loop of send_recv_command that reads again after a zero-length read.
send_recv_command_loop_skips_eof(request, rd) ==
    IF rd.k = "error" THEN Some(IoError(rd.c))
    ELSE IF rd.k = "zero" THEN None
    ELSE LET parsed == CommandResponse_from_str(rd.line)
         IN  IF IsErr(parsed) THEN Some(parsed)
             ELSE LET response == parsed.v
                  IN  IF response.request_id = Some(request.request_id)
                      THEN IF response.error = Some("success") THEN Some(Ok(response.data))
                           ELSE IF IsSome(response.error)
                                THEN Some(MpvError(Unwrap(response.error)))
                           ELSE Some(UnknownResponse)
                      ELSE None

\* A loop of send_recv_command that skips a line it cannot parse.
send_recv_command_loop_skips_malformed(request, rd) ==
    IF rd.k = "error" THEN Some(IoError(rd.c))
    ELSE LET parsed == IF rd.k = "zero" THEN ParseError
                       ELSE CommandResponse_from_str(rd.line)
         IN  IF IsErr(parsed) THEN IF rd.k = "zero" THEN Some(parsed) ELSE None
             ELSE LET response == parsed.v
                  IN  IF response.request_id = Some(request.request_id)
                      THEN IF response.error = Some("success") THEN Some(Ok(response.data))
                           ELSE IF IsSome(response.error)
                                THEN Some(MpvError(Unwrap(response.error)))
                           ELSE Some(UnknownResponse)
                      ELSE None

\* One turn of the loop of send_recv_command: what the line read means for the
\* request awaited.  None: the line is skipped and the loop reads again.
send_recv_command_loop(request, rd) ==
    IF rd.k = "error" THEN Some(IoError(rd.c))
    ELSE LET parsed == IF rd.k = "zero" THEN ParseError
                       ELSE CommandResponse_from_str(rd.line)
         IN  IF IsErr(parsed) THEN Some(parsed)
             ELSE LET response == parsed.v
                  IN  IF response.request_id = Some(request.request_id)
                      THEN IF response.error = Some("success") THEN Some(Ok(response.data))
                           ELSE IF IsSome(response.error)
                                THEN Some(MpvError(Unwrap(response.error)))
                           ELSE Some(UnknownResponse)
                      ELSE None

-----------------------------------------------------------------------------
(* EventIter and the adaptors observe_property and observe_properties put  *)
(* on it.                                                                  *)

\* EventIter::new, with the item type of the adaptors: "PropertyChangeEvent" for
\* observe_properties, the T of observe_property::<T>.
EventIter_new(num, T) == [num_observed_properties |-> num, T |-> T]

\* An EventIter::next that lets the terminal events pass without closing the socket.
EventIter_next_open(rd) ==
    IF rd.k = "error" THEN [closed |-> closed, out |-> Some(IoError(rd.c))]
    ELSE IF rd.k = "zero" THEN [closed |-> closed, out |-> None]
    ELSE LET res_event == EventResponse_from_str(rd.line)
         IN  IF IsErr(res_event) THEN [closed |-> closed, out |-> Some(res_event)]
             ELSE LET error == res_event.v.error
                  IN  IF error = None \/ error = Some("success")
                      THEN [closed |-> closed, out |-> Some(Ok(res_event.v))]
                      ELSE [closed |-> closed, out |-> Some(MpvError(Unwrap(error)))]

\* An EventIter::next that reports the end of the stream as an error.
EventIter_next_eof_is_error(rd) ==
    IF rd.k \in { "error", "zero" } THEN [closed |-> closed, out |-> Some(IoError(rd.c))]
    ELSE LET res_event == EventResponse_from_str(rd.line)
         IN  IF IsErr(res_event) THEN [closed |-> closed, out |-> Some(res_event)]
             ELSE LET event == res_event.v.event
                      error == res_event.v.error
                      c == \/ closed
                           \/ event.tag = "Shutdown"
                           \/ event.tag = "EndFile" /\ event.reason = Some("quit")
                  IN  IF error = None \/ error = Some("success")
                      THEN [closed |-> c, out |-> Some(Ok(res_event.v))]
                      ELSE [closed |-> c, out |-> Some(MpvError(Unwrap(error)))]

\* An EventIter::next that takes every end-file event for the end of the player.
EventIter_next_any_end_file(rd) ==
    IF rd.k = "error" THEN [closed |-> closed, out |-> Some(IoError(rd.c))]
    ELSE IF rd.k = "zero" THEN [closed |-> closed, out |-> None]
    ELSE LET res_event == EventResponse_from_str(rd.line)
         IN  IF IsErr(res_event) THEN [closed |-> closed, out |-> Some(res_event)]
             ELSE LET event == res_event.v.event
                      error == res_event.v.error
                      c == closed \/ event.tag \in { "Shutdown", "EndFile" }
                  IN  IF error = None \/ error = Some("success")
                      THEN [closed |-> c, out |-> Some(Ok(res_event.v))]
                      ELSE [closed |-> c, out |-> Some(MpvError(Unwrap(error)))]

\* An EventIter::next that looks at the error field before the kind of the event:
\* an event with an error does not close the socket.
EventIter_next_error_first(rd) ==
    IF rd.k = "error" THEN [closed |-> closed, out |-> Some(IoError(rd.c))]
    ELSE IF rd.k = "zero" THEN [closed |-> closed, out |-> None]
    ELSE LET res_event == EventResponse_from_str(rd.line)
         IN  IF IsErr(res_event) THEN [closed |-> closed, out |-> Some(res_event)]
             ELSE LET event == res_event.v.event
                      error == res_event.v.error
                      c == \/ closed
                           \/ event.tag = "Shutdown"
                           \/ event.tag = "EndFile" /\ event.reason = Some("quit")
                  IN  IF error = None \/ error = Some("success")
                      THEN [closed |-> c, out |-> Some(Ok(res_event.v))]
                      ELSE [closed |-> closed, out |-> Some(MpvError(Unwrap(error)))]

\* An EventIter::next that closes the socket when an event carries an error.
EventIter_next_error_closes(rd) ==
    IF rd.k = "error" THEN [closed |-> closed, out |-> Some(IoError(rd.c))]
    ELSE IF rd.k = "zero" THEN [closed |-> closed, out |-> None]
    ELSE LET res_event == EventResponse_from_str(rd.line)
         IN  IF IsErr(res_event) THEN [closed |-> closed, out |-> Some(res_event)]
             ELSE LET event == res_event.v.event
                      error == res_event.v.error
                      c == \/ closed
                           \/ event.tag = "Shutdown"
                           \/ event.tag = "EndFile" /\ event.reason = Some("quit")
                  IN  IF error = None \/ error = Some("success")
                      THEN [closed |-> c, out |-> Some(Ok(res_event.v))]
                      ELSE [closed |-> TRUE, out |-> Some(MpvError(Unwrap(error)))]

\* An EventIter::next that ends the sequence at a line it cannot parse.
EventIter_next_parse_error_ends(rd) ==
    IF rd.k = "error" THEN [closed |-> closed, out |-> Some(IoError(rd.c))]
    ELSE IF rd.k = "zero" THEN [closed |-> closed, out |-> None]
    ELSE LET res_event == EventResponse_from_str(rd.line)
         IN  IF IsErr(res_event) THEN [closed |-> closed, out |-> None]
             ELSE LET event == res_event.v.event
                      error == res_event.v.error
                      c == \/ closed
                           \/ event.tag = "Shutdown"
                           \/ event.tag = "EndFile" /\ event.reason = Some("quit")
                  IN  IF error = None \/ error = Some("success")
                      THEN [closed |-> c, out |-> Some(Ok(res_event.v))]
                      ELSE [closed |-> c, out |-> Some(MpvError(Unwrap(error)))]

\* EventIter::next after its closed check, on the outcome of its read: the new closed
\* flag and the Option<Result<EventResponse>> returned.
EventIter_next(rd) ==
    IF rd.k = "error" THEN [closed |-> closed, out |-> Some(IoError(rd.c))]
    ELSE IF rd.k = "zero" THEN [closed |-> closed, out |-> None]
    ELSE LET res_event == EventResponse_from_str(rd.line)
         IN  IF IsErr(res_event) THEN [closed |-> closed, out |-> Some(res_event)]
             ELSE LET event == res_event.v.event
                      error == res_event.v.error
                      c == \/ closed
                           \/ event.tag = "Shutdown"
                           \/ event.tag = "EndFile" /\ event.reason = Some("quit")
                  IN  IF error = None \/ error = Some("success")
                      THEN [closed |-> c, out |-> Some(Ok(res_event.v))]
                      ELSE [closed |-> c, out |-> Some(MpvError(Unwrap(error)))]

\* A filter that lets a property-change without data pass.
filter_property_change_event_null(event_response) ==
    IF IsOk(event_response)
    THEN LET event == event_response.v.event
         IN  IF event.tag = "PropertyChange"
             THEN Some(Ok([name |-> event.name, data |-> event.data]))
             ELSE None
    ELSE Some(event_response)

\* MpvSocket::filter_property_change_event
filter_property_change_event(event_response) ==
    IF IsOk(event_response)
    THEN LET event == event_response.v.event
         IN  IF event.tag = "PropertyChange" /\ event.data # Null
             THEN Some(Ok([name |-> event.name, data |-> event.data]))
             ELSE None
    ELSE Some(event_response)

\* The closure observe_property maps over the filtered events.
observe_property_map(T, property_change_event) ==
    IF IsOk(property_change_event)
    THEN TryFromValue(T, property_change_event.v.data)
    ELSE property_change_event

\* The item the adaptors make of what EventIter::next returned: <<>> when the event
\* is filtered out, else << item >>.
Adapt(T, out) ==
    LET filtered == filter_property_change_event(out)
    IN  IF filtered = None THEN None
        ELSE IF T = "PropertyChangeEvent" THEN filtered
        ELSE Some(observe_property_map(T, Unwrap(filtered)))

-----------------------------------------------------------------------------
(* The client: what an operation is doing and what it returned. *)

NoResult == [k |-> "None", v |-> Null, e |-> "", m |-> "", c |-> 0]
Panic == Err("panic", "assertion failed", 0)
NoRequest == Request([tag |-> "", id |-> 0, property |-> "", value |-> Null], I64(0))
NoCall == [op |-> "", T |-> "", props |-> << >>, k |-> 0, request |-> NoRequest]
Call(op, T, props, k) == [op |-> op, T |-> T, props |-> props, k |-> k, request |-> NoRequest]

\* op: the operation, "" while it runs; sr: what its last send_recv_command
\* returned; out: what the operation returned (while connect runs, the error of its
\* last open); item: what a pull returned (<<>> is None); log: drop logged
\* an error.
Ret(op, sr, out, item, log) == [op |-> op, sr |-> sr, out |-> out, item |-> item, log |-> log]
NoRet == Ret("", NoResult, NoResult, None, FALSE)

PlainOps == { "client_name", "get_time_us", "get_property", "set_property", "get_version" }
ObserveOps == { "observe_property", "observe_properties" }

\* What the operation makes of the Value send_recv_command returned:
\* send_recv_convert_command, and set_property with its debug_assert_eq! (a build
\* with debug assertions panics on data that is not null, a release build does not).
Converted(c, r) ==
    IF IsErr(r) THEN { r }
    ELSE IF c.op = "set_property"
         THEN IF r.v = Null THEN { Ok(Null) } ELSE { Ok(Null), Panic }
    ELSE { TryFromValue(c.T, r.v) }

\* A teardown that logs every error, the one of a closed player too.
drop_logs_every_error(result) == IsErr(result)

\* Drop for EventIter, after its loop: an error whose cause is the I/O error
\* ERROR_NO_DATA is ignored, any other is logged; none is returned.
drop_logs(result) == IsErr(result) /\ ~(result.e = "io" /\ result.c = ERROR_NO_DATA)

\* A loop of observe_properties that goes on to the next property after an error.
observe_loop_on(result, property_index, n) == property_index < n

\* observe_properties, its loop over the properties: after the observe command of
\* property_index returned result, the loop takes another turn (the `?` returns
\* an error from the call).
observe_loop(result, property_index, n) == IsOk(result) /\ property_index < n

\* A loop of drop that goes on to the next observer id after an error.
drop_loop_on(result, observed_id, n) == observed_id < n

\* A loop of drop that ends after its first turn.
drop_loop_once(result, observed_id, n) == FALSE

\* Drop for EventIter, its loop over 1..=num_observed_properties: after the
\* unobserve of observed_id returned result, the loop takes another turn (an error
\* breaks it).
drop_loop(result, observed_id, n) == IsOk(result) /\ observed_id < n

\* send_recv_command has returned r to the operation c: the rest of the operation,
\* up to its next write or its return.
Returned(c, r) ==
    IF c.op \in PlainOps
    THEN /\ \E out \in Converted(c, r) : ret' = Ret(c.op, r, out, None, FALSE)
         /\ pc' = "idle"
         /\ call' = NoCall
         /\ UNCHANGED iter
    ELSE IF c.op \in ObserveOps
    THEN IF observe_loop(r, c.k, Len(c.props))
         THEN /\ pc' = "observe_next"
              /\ call' = [c EXCEPT !.k = c.k + 1]
              /\ ret' = Ret("", r, NoResult, None, FALSE)
              /\ UNCHANGED iter
         ELSE /\ pc' = "idle"
              /\ call' = NoCall
              /\ ret' = Ret(c.op, r, IF IsOk(r) THEN Ok(Null) ELSE r, None, FALSE)
              /\ iter' = IF IsOk(r) THEN Some(EventIter_new(c.k, c.T)) ELSE iter
    ELSE \* the drop of the EventIter
         IF drop_loop(r, c.k, Unwrap(iter).num_observed_properties)
         THEN /\ pc' = "drop_next"
              /\ call' = [c EXCEPT !.k = c.k + 1]
              /\ ret' = Ret("", r, NoResult, None, FALSE)
              /\ UNCHANGED iter
         ELSE /\ pc' = "idle"
              /\ call' = NoCall
              /\ ret' = Ret("drop", r, Ok(Null), None, drop_logs(r))
              /\ iter' = None

\* The properties the observe commands of the requests in log name, in their order.
Observed(log) ==
    LET observes == SelectSeq(log, LAMBDA w : w.command[1] = Str("observe_property"))
    IN  [i \in 1..Len(observes) |-> observes[i].command[3].v]

\* The properties of the subscription that was dropped just before the subscription
\* call c begins, when the drop got a success reply to each of its unobserve
\* commands: those of them that c does not observe again.
Abandoned(c) ==
    IF c.op \in ObserveOps /\ ret.op = "drop" /\ IsOk(ret.sr)
    THEN SelectSeq(Observed(written),
                   LAMBDA p : \A i \in 1..Len(c.props) : c.props[i] # p)
    ELSE << >>

\* The operation of the call c begins anew: `written` starts again.
Fresh(c, log) ==
    prev_written' = IF log = << >> /\ written # << >>
                    THEN Some([request_id |-> written[Len(written)].request_id,
                               abandoned |-> Abandoned(c)])
                    ELSE prev_written

\* A send_recv_command_check that lets a closed socket send.
send_recv_command_check_open == None

\* send_recv_command, its first statement: a closed socket returns the error at once.
send_recv_command_check == IF closed THEN Some(SocketClosed) ELSE None

\* A send_recv_command that takes the request id only when the write succeeds.
send_recv_command_keeps_id(c, command, log) ==
    /\ IsSome(send_recv_command_check) \/ nreq < MaxRequests
    /\ Fresh(c, log)
    /\ last_read' = NoRead
    /\ UNCHANGED << tries_left, closed, inbound, remote, exhausted, terminal >>
    /\ IF IsSome(send_recv_command_check)
       THEN /\ Returned(c, Unwrap(send_recv_command_check))
            /\ written' = log
            /\ UNCHANGED << last_request_id, nreq, pending >>
       ELSE LET id == RequestId_next(last_request_id)
                request == Request(command, id.out)
            IN  /\ nreq' = nreq + 1
                /\ \E w \in WriteOutcomes :
                      IF IsOk(w)
                      THEN /\ written' = Append(log, Request_serialize(request))
                           /\ pending' = { Request_serialize(request) }
                           /\ pc' = "await"
                           /\ call' = [c EXCEPT !.request = request]
                           /\ ret' = NoRet
                           /\ last_request_id' = id.self
                           /\ UNCHANGED iter
                      ELSE /\ Returned(c, w)
                           /\ written' = log
                           /\ UNCHANGED << pending, last_request_id >>

\* send_recv_command from its call to its first read, for the operation c; log is
\* what `written` holds of the operation so far.
send_recv_command(c, command, log) ==
    /\ IsSome(send_recv_command_check) \/ nreq < MaxRequests
    /\ Fresh(c, log)
    /\ last_read' = NoRead
    /\ UNCHANGED << tries_left, closed, inbound, remote, exhausted, terminal >>
    /\ IF IsSome(send_recv_command_check)
       THEN /\ Returned(c, Unwrap(send_recv_command_check))
            /\ written' = log
            /\ UNCHANGED << last_request_id, nreq, pending >>
       ELSE LET id == RequestId_next(last_request_id)
                request == Request(command, id.out)
            IN  /\ last_request_id' = id.self
                /\ nreq' = nreq + 1
                /\ \E w \in WriteOutcomes :
                      IF IsOk(w)
                      THEN /\ written' = Append(log, Request_serialize(request))
                           /\ pending' = { Request_serialize(request) }
                           /\ pc' = "await"
                           /\ call' = [c EXCEPT !.request = request]
                           /\ ret' = NoRet
                           /\ UNCHANGED iter
                      ELSE /\ Returned(c, w)
                           /\ written' = log
                           /\ UNCHANGED pending

\* A send_recv_command that sets closed when the line it reads is a shutdown event
\* or an end-file event with the reason quit.
send_recv_command_read_closes ==
    /\ pc = "await"
    /\ \E rd \in ReadOutcomes :
          /\ Consume("send_recv_command", rd)
          /\ closed' = \/ closed
                        \/ /\ rd.k = "line"
                           /\ \/ rd.line.event = Some("shutdown")
                              \/ rd.line.event = Some("end-file") /\ rd.line.reason = Some("quit")
          /\ LET r == send_recv_command_loop(call.request, rd)
             IN  IF r = None
                 THEN UNCHANGED << pc, call, ret, iter >>
                 ELSE Returned(call, Unwrap(r))
    /\ UNCHANGED << tries_left, last_request_id, pending, written, prev_written,
                    nreq, exhausted, terminal >>

\* send_recv_command reads one line.
send_recv_command_read ==
    /\ pc = "await"
    /\ \E rd \in ReadOutcomes :
          /\ Consume("send_recv_command", rd)
          /\ LET r == send_recv_command_loop(call.request, rd)
             IN  IF r = None
                 THEN UNCHANGED << pc, call, ret, iter >>
                 ELSE Returned(call, Unwrap(r))
    /\ UNCHANGED << closed, tries_left, last_request_id, pending, written, prev_written,
                    nreq, exhausted, terminal >>

\* No call runs and no iterator borrows the socket.
Free == pc = "idle" /\ iter = None

client_name ==
    /\ Free
    /\ send_recv_command(Call("client_name", "String", << >>, 0), ClientName, << >>)

get_time_us ==
    /\ Free
    /\ send_recv_command(Call("get_time_us", "i64", << >>, 0), GetTimeUs, << >>)

get_version ==
    /\ Free
    /\ send_recv_command(Call("get_version", "i64", << >>, 0), GetVersion, << >>)

\* The calls of get_property the model makes: the property and the type asked for.
GetPropertyCalls == { << "volume", "f64" >>, << "volume", "bool" >>, << "pause", "bool" >> }

get_property ==
    /\ Free
    /\ \E a \in GetPropertyCalls :
          send_recv_command(Call("get_property", a[2], << >>, 0), GetProperty(a[1]), << >>)

set_property ==
    /\ Free
    /\ send_recv_command(Call("set_property", "", << >>, 0),
                         SetProperty("pause", Bool(TRUE)), << >>)

\* The calls of observe_property the model makes.
ObservePropertyCalls == { << "volume", "f64" >>, << "volume", "bool" >> }

observe_property ==
    /\ Free
    /\ \E a \in ObservePropertyCalls :
          send_recv_command(Call("observe_property", a[2], << a[1] >>, 1),
                            ObserveProperty(1, a[1]), << >>)

\* The property lists the model passes to observe_properties.
PropertyLists == { << >>, << "pause" >>, << "volume", "pause" >> }

observe_properties ==
    /\ Free
    /\ \E props \in PropertyLists :
          IF props = << >>
          THEN /\ iter' = Some(EventIter_new(0, "PropertyChangeEvent"))
               /\ ret' = Ret("observe_properties", NoResult, Ok(Null), None, FALSE)
               /\ written' = << >>
               /\ Fresh(Call("observe_properties", "PropertyChangeEvent", props, 0), << >>)
               /\ last_read' = NoRead
               /\ UNCHANGED << closed, tries_left, last_request_id, pc, call, inbound,
                               remote, pending, nreq, exhausted, terminal >>
          ELSE send_recv_command(Call("observe_properties", "PropertyChangeEvent", props, 1),
                                 ObserveProperty(1, props[1]), << >>)

\* The next turn of the loop of observe_properties.
observe_next ==
    /\ pc = "observe_next"
    /\ send_recv_command(call, ObserveProperty(call.k, call.props[call.k]), written)

\* A pull that goes to its read whether the socket is closed or not.
next_reads_when_closed ==
    /\ pc = "idle"
    /\ iter # None
    /\ ret' = NoRet
    /\ pc' = "next"
    /\ last_read' = NoRead
    /\ UNCHANGED << closed, tries_left, last_request_id, iter, call, inbound, remote,
                    pending, written, prev_written, nreq, terminal, exhausted >>

\* The caller pulls the next item: EventIter::next up to its read.
next ==
    /\ pc = "idle"
    /\ iter # None
    /\ IF closed
       THEN /\ ret' = Ret("next", NoResult, NoResult, None, FALSE)
            /\ exhausted' = TRUE
            /\ UNCHANGED pc
       ELSE /\ ret' = NoRet
            /\ pc' = "next"
            /\ UNCHANGED exhausted
    /\ last_read' = NoRead
    /\ UNCHANGED << closed, tries_left, last_request_id, iter, call, inbound, remote,
                    pending, written, prev_written, nreq, terminal >>

\* EventIter::next reads one line; the adaptors pull again when they filter the
\* event out.
next_read ==
    /\ pc = "next"
    /\ \E rd \in ReadOutcomes :
          /\ Consume("next", rd)
          /\ LET r == EventIter_next(rd)
                 item == IF r.out = None THEN None
                         ELSE Adapt(Unwrap(iter).T, Unwrap(r.out))
             IN  /\ closed' = r.closed
                 /\ terminal' = IF r.closed THEN Unwrap(rd.line.event) ELSE terminal
                 /\ IF r.out # None /\ item # None
                    THEN /\ ret' = Ret("next", NoResult, NoResult, item, FALSE)
                         /\ pc' = "idle"
                         /\ UNCHANGED exhausted
                    ELSE IF r.out = None \/ r.closed
                    THEN /\ ret' = Ret("next", NoResult, NoResult, None, FALSE)
                         /\ pc' = "idle"
                         /\ exhausted' = TRUE
                    ELSE UNCHANGED << ret, pc, exhausted >>
    /\ UNCHANGED << tries_left, last_request_id, iter, call, pending, written, prev_written,
                    nreq >>

\* A teardown that clears closed when it finds it set.
drop_reopens ==
    /\ pc = "idle"
    /\ iter # None
    /\ IF closed \/ Unwrap(iter).num_observed_properties = 0
       THEN /\ iter' = None
            /\ closed' = FALSE
            /\ ret' = Ret("drop", NoResult, Ok(Null), None, FALSE)
            /\ last_read' = NoRead
            /\ UNCHANGED << tries_left, last_request_id, pc, call, inbound, remote,
                            pending, written, prev_written, nreq, exhausted, terminal >>
       ELSE send_recv_command(Call("drop", "", << >>, 1), UnobserveProperty(1), written)

\* Drop for EventIter, up to its first read.
drop ==
    /\ pc = "idle"
    /\ iter # None
    /\ IF closed \/ Unwrap(iter).num_observed_properties = 0
       THEN /\ iter' = None
            /\ ret' = Ret("drop", NoResult, Ok(Null), None, FALSE)
            /\ last_read' = NoRead
            /\ UNCHANGED << closed, tries_left, last_request_id, pc, call, inbound, remote,
                            pending, written, prev_written, nreq, exhausted, terminal >>
       ELSE send_recv_command(Call("drop", "", << >>, 1), UnobserveProperty(1), written)

\* The next turn of the loop of drop.
drop_next ==
    /\ pc = "drop_next"
    /\ send_recv_command(call, UnobserveProperty(call.k), written)

-----------------------------------------------------------------------------
(* The remote. *)

\* The client is in send_recv_command and the next line of the stream is the reply
\* to its request.
AwaitsHead ==
    /\ pc = "await"
    /\ inbound # << >>
    /\ Head(inbound).reply = Some(Request_serialize(call.request))

\* A line arrives: the remote has written it and it waits to be read.
Arrive(reply) ==
    /\ remote = "open"
    /\ Len(inbound) < MaxInbound
    /\ inbound' = Append(inbound, Sent(reply, reply = None /\ AwaitsHead))

\* The remote sends an event, or a line that is no JSON.
remote_event ==
    /\ Arrive(None)
    /\ UNCHANGED << closed, tries_left, last_request_id, iter, pc, call, remote, pending,
                    written, prev_written, nreq, exhausted, terminal, ret, last_read >>

\* The remote answers the request it has received.
remote_reply ==
    /\ \E w \in pending :
          /\ Arrive(Some(w))
          /\ pending' = pending \ { w }
    /\ UNCHANGED << closed, tries_left, last_request_id, iter, pc, call, remote,
                    written, prev_written, nreq, exhausted, terminal, ret, last_read >>

\* The remote closes its end: what it has sent can still be read, the request it
\* has not answered is never answered.
remote_close ==
    /\ remote = "open"
    /\ remote' = "gone"
    /\ pending' = { }
    /\ UNCHANGED << closed, tries_left, last_request_id, iter, pc, call, inbound,
                    written, prev_written, nreq, exhausted, terminal, ret, last_read >>

-----------------------------------------------------------------------------

\* What an open of the pipe gives: the pipe, the error ERROR_PIPE_BUSY, an error
\* with another OS code, or an error with no OS code (code 0).
OpenOutcomes ==
    { Ok(Null), IoError(ERROR_PIPE_BUSY), IoError(ERROR_FILE_NOT_FOUND), IoError(0) }

\* A connect that, once the pipe was busy, tries again after any error.
connect_on_error_after_busy(error, tries) ==
    IF error.c = ERROR_PIPE_BUSY \/ tries < 5
    THEN [tries_left |-> tries - 1, continue |-> tries - 1 # 0]
    ELSE [tries_left |-> tries, continue |-> FALSE]

\* A connect that tries again after every error.
connect_on_error_every(error, tries) ==
    [tries_left |-> tries - 1, continue |-> tries - 1 # 0]

\* connect, its match on the error of a failed open, with `tries` tries left: what
\* is left then, and whether the loop sleeps and goes on.
connect_on_error(error, tries) ==
    IF error.c = ERROR_PIPE_BUSY
    THEN [tries_left |-> tries - 1, continue |-> tries - 1 # 0]
    ELSE [tries_left |-> tries, continue |-> FALSE]

\* MpvSocket::connect, one turn of its loop: an open of the pipe and what follows.
connect ==
    /\ pc = "connect"
    /\ \E open_pipe_result \in OpenOutcomes :
          IF IsOk(open_pipe_result)
          THEN /\ pc' = "idle"
               /\ remote' = "open"
               /\ closed' = FALSE
               /\ last_request_id' = RequestId_new
               /\ tries_left' = 0
               /\ ret' = Ret("connect", NoResult, Ok(Null), None, FALSE)
          ELSE LET on_error == connect_on_error(open_pipe_result, tries_left)
               IN  /\ tries_left' = on_error.tries_left
                   /\ IF on_error.continue
                      THEN /\ ret' = Ret("", NoResult, open_pipe_result, None, FALSE)
                           /\ UNCHANGED pc
                      ELSE /\ ret' = Ret("connect", NoResult,
                                         ConnectError(open_pipe_result.c), None, FALSE)
                           /\ pc' = "failed"
                   /\ UNCHANGED << closed, last_request_id, remote >>
    /\ UNCHANGED << iter, call, inbound, pending, written, prev_written, nreq,
                    exhausted, terminal, last_read >>

-----------------------------------------------------------------------------
(* The C API: mpv_socket_observe_property_f64. *)

\* No call of the C API is under way.
FfiOff == [at |-> "off", callbacks |-> << >>, result |-> None]

\* at: where the function is: "entry" (not called yet), "observe" (in
\* socket.observe_property), "for" (at the head of its loop), "pull" (in the next
\* of the iterator), "drop" (leaving, the iterator is about to be dropped),
\* "dropping" (in the drop of the iterator), "returned", "aborted"; callbacks: the
\* values the callback was called with, in order; result: the error object the
\* function returns, <<>> for the null pointer.
Ffi(at, callbacks, result) == [at |-> at, callbacks |-> callbacks, result |-> result]

\* Calls of the callback one call of the function is followed over.
MaxCallbacks == 2

\* A property string that is not UTF-8.
NotUtf8 == "<not UTF-8>"
\* The property strings the host passes: the name of a property, a string that
\* names none, and bytes that are no string.
FfiProperties == { "volume", "no-such-property", NotUtf8 }
\* The names Property deserializes from.
PropertyNames == { "volume", "pause" }

\* The variables of the native client and of the channel.
native == << closed, last_request_id, iter, pc, call, inbound, remote, pending, written,
            prev_written, nreq, exhausted, terminal, ret, last_read, tries_left >>

\* error!(error): the error boxed into an mpv_socket_error.
mpv_socket_error(e) == Some(e)

\* The error object for a property string that names no property.
InvalidProperty == mpv_socket_error(Err("ffi", "invalid property", 0))

\* A loop that goes on to the next item after an error item.
for_body_skips_errors(f, item) ==
    IF item = None THEN [f EXCEPT !.at = "drop"]
    ELSE IF IsOk(Unwrap(item))
    THEN [f EXCEPT !.at = "for", !.callbacks = Append(@, Unwrap(item).v)]
    ELSE [f EXCEPT !.at = "for"]

\* One turn of `for result in iter`: the iterator has returned item. None ends the
\* loop; an Ok value goes to the callback; an error is returned, and the return
\* drops the iterator.
for_body(f, item) ==
    IF item = None THEN [f EXCEPT !.at = "drop"]
    ELSE IF IsOk(Unwrap(item))
    THEN [f EXCEPT !.at = "for", !.callbacks = Append(@, Unwrap(item).v)]
    ELSE [f EXCEPT !.at = "drop", !.result = mpv_socket_error(Unwrap(item))]

\* The function after a step of socket.observe_property: still in it, or it has
\* returned: an error is returned at once, with the iterator the loop begins.
observed(f) ==
    IF pc' # "idle" THEN [f EXCEPT !.at = "observe"]
    ELSE IF IsErr(ret'.out) THEN [f EXCEPT !.at = "returned", !.result = mpv_socket_error(ret'.out)]
    ELSE [f EXCEPT !.at = "for"]

\* The function after a step of the iterator's next.
pulled(f) == IF pc' # "idle" THEN [f EXCEPT !.at = "pull"] ELSE for_body(f, ret'.item)

\* The function after a step of the drop of the iterator: once the iterator is
\* dropped the function returns.
dropped(f) ==
    IF pc' # "idle" THEN [f EXCEPT !.at = "dropping"] ELSE [f EXCEPT !.at = "returned"]

\* The host calls mpv_socket_observe_property_f64, for the first time or again
\* after it has returned: up to the first read of socket.observe_property.
mpv_socket_observe_property_f64 ==
    /\ ffi.at \in { "entry", "returned" }
    /\ Free
    /\ \E property \in FfiProperties :
          IF property = NotUtf8
          THEN \* to_str().unwrap() panics and ffi_fn! aborts the process
               /\ ffi' = Ffi("aborted", << >>, None)
               /\ UNCHANGED native
          ELSE IF property \notin PropertyNames
          THEN /\ ffi' = Ffi("returned", << >>, InvalidProperty)
               /\ UNCHANGED native
          ELSE /\ send_recv_command(Call("observe_property", "f64", << property >>, 1),
                                    ObserveProperty(1, property), << >>)
               /\ ffi' = observed(Ffi("observe", << >>, None))

\* socket.observe_property reads a line.
mpv_socket_observe_property_f64_observe ==
    /\ ffi.at = "observe"
    /\ send_recv_command_read
    /\ ffi' = observed(ffi)

\* The loop asks the iterator for its next item.
mpv_socket_observe_property_f64_next ==
    /\ ffi.at = "for"
    /\ Len(ffi.callbacks) < MaxCallbacks
    /\ next
    /\ ffi' = pulled(ffi)

\* The iterator reads a line.
mpv_socket_observe_property_f64_next_read ==
    /\ ffi.at = "pull"
    /\ next_read
    /\ ffi' = pulled(ffi)

\* The function leaves its body: the iterator is dropped.
mpv_socket_observe_property_f64_drop ==
    /\ ffi.at = "drop"
    /\ drop
    /\ ffi' = dropped(ffi)

\* The drop of the iterator reads a line.
mpv_socket_observe_property_f64_drop_read ==
    /\ ffi.at = "dropping"
    /\ send_recv_command_read
    /\ ffi' = dropped(ffi)

\* MpvSocket::connect has returned.
Init ==
    /\ tries_left = 0
    /\ closed = FALSE
    /\ last_request_id = RequestId_new
    /\ iter = None
    /\ pc = "idle"
    /\ call = NoCall
    /\ inbound = << >>
    /\ remote = "open"
    /\ pending = { }
    /\ written = << >>
    /\ prev_written = None
    /\ nreq = 0
    /\ exhausted = FALSE
    /\ terminal = ""
    /\ ret = NoRet
    /\ last_read = NoRead
    /\ ffi = FfiOff

\* The native client and the remote: no call of the C API is under way.
Next ==
    \/ client_name /\ UNCHANGED ffi
    \/ get_time_us /\ UNCHANGED ffi
    \/ get_version /\ UNCHANGED ffi
    \/ get_property /\ UNCHANGED ffi
    \/ set_property /\ UNCHANGED ffi
    \/ observe_property /\ UNCHANGED ffi
    \/ observe_properties /\ UNCHANGED ffi
    \/ observe_next /\ UNCHANGED ffi
    \/ send_recv_command_read /\ UNCHANGED ffi
    \/ next /\ UNCHANGED ffi
    \/ next_read /\ UNCHANGED ffi
    \/ drop /\ UNCHANGED ffi
    \/ drop_next /\ UNCHANGED ffi
    \/ remote_event /\ UNCHANGED ffi
    \/ remote_reply /\ UNCHANGED ffi
    \/ remote_close /\ UNCHANGED ffi

Spec == Init /\ [][Next]_vars

\* MpvSocket::connect is called: no try is used up and there is no socket yet.
InitConnect ==
    /\ tries_left = 5
    /\ closed = FALSE
    /\ last_request_id = RequestId_new
    /\ iter = None
    /\ pc = "connect"
    /\ call = NoCall
    /\ inbound = << >>
    /\ remote = "unconnected"
    /\ pending = { }
    /\ written = << >>
    /\ prev_written = None
    /\ nreq = 0
    /\ exhausted = FALSE
    /\ terminal = ""
    /\ ret = NoRet
    /\ last_read = NoRead
    /\ ffi = FfiOff

NextConnect ==
    \/ connect /\ UNCHANGED ffi
    \/ Next

\* The connection from the call of connect on.
SpecConnect == InitConnect /\ [][NextConnect]_vars

\* The counters a long-lived connection is followed from: the one connect leaves,
\* and the one two requests before the largest i64.
StartIds == { RequestId_new, << 32767, 65535, 65535, 65534 >> }

\* The connection after connect, or later in its life: the counter has gone up to
\* a value of StartIds, the request with that id was the last one written, and no
\* operation is running.
InitWrap ==
    /\ last_request_id \in StartIds
    /\ prev_written = IF last_request_id = RequestId_new THEN None
                      ELSE Some([request_id |-> last_request_id, abandoned |-> << >>])
    /\ tries_left = 0
    /\ closed = FALSE
    /\ iter = None
    /\ pc = "idle"
    /\ call = NoCall
    /\ inbound = << >>
    /\ remote = "open"
    /\ pending = { }
    /\ written = << >>
    /\ nreq = 0
    /\ exhausted = FALSE
    /\ terminal = ""
    /\ ret = NoRet
    /\ last_read = NoRead
    /\ ffi = FfiOff

SpecWrap == InitWrap /\ [][Next]_vars

\* The client and a fair remote. A call that is under way goes on: a read that can
\* return does, and the loops of observe_properties and of drop take their next
\* turn. The remote answers the request it holds: the stream takes the reply
\* whenever the reader has made room for it, however many events the remote sends
\* in between.
Fairness ==
    /\ WF_vars(send_recv_command_read /\ UNCHANGED ffi)
    /\ WF_vars(observe_next /\ UNCHANGED ffi)
    /\ WF_vars(drop_next /\ UNCHANGED ffi)
    /\ SF_vars(remote_reply /\ UNCHANGED ffi)

SpecFair == Init /\ [][Next]_vars /\ Fairness

\* The values typed extraction is followed on.
TryFromValues ==
    { Null, Bool(TRUE), Bool(FALSE), Num(0 - 1), Num(0), Num(52), UInt, Dbl(52), Dbl(0),
      Str("ipc-1"), Str("52"), Str("true"), Array, Object }

\* A value is about to be extracted as the type T.
InitTryFromValue ==
    /\ tries_left = 0
    /\ closed = FALSE
    /\ last_request_id = RequestId_new
    /\ iter = None
    /\ pc = "try_from"
    /\ \E T \in Types, value \in TryFromValues :
          call = [Call("try_from", T, << >>, 0) EXCEPT !.request.command.value = value]
    /\ inbound = << >>
    /\ remote = "open"
    /\ pending = { }
    /\ written = << >>
    /\ prev_written = None
    /\ nreq = 0
    /\ exhausted = FALSE
    /\ terminal = ""
    /\ ret = NoRet
    /\ last_read = NoRead
    /\ ffi = FfiOff

\* T::try_from(value) is called and returns.
try_from ==
    /\ pc = "try_from"
    /\ pc' = "idle"
    /\ ret' = Ret("try_from", NoResult,
                  TryFromValue(call.T, call.request.command.value), None, FALSE)
    /\ UNCHANGED << closed, tries_left, last_request_id, iter, call, inbound, remote,
                    pending, written, prev_written, nreq, exhausted, terminal, last_read >>

\* The host has connected and has not called the function yet.
InitFfi ==
    /\ tries_left = 0
    /\ closed = FALSE
    /\ last_request_id = RequestId_new
    /\ iter = None
    /\ pc = "idle"
    /\ call = NoCall
    /\ inbound = << >>
    /\ remote = "open"
    /\ pending = { }
    /\ written = << >>
    /\ prev_written = None
    /\ nreq = 0
    /\ exhausted = FALSE
    /\ terminal = ""
    /\ ret = NoRet
    /\ last_read = NoRead
    /\ ffi = Ffi("entry", << >>, None)

NextFfi ==
    \/ mpv_socket_observe_property_f64
    \/ mpv_socket_observe_property_f64_observe
    \/ mpv_socket_observe_property_f64_next
    \/ mpv_socket_observe_property_f64_next_read
    \/ mpv_socket_observe_property_f64_drop
    \/ mpv_socket_observe_property_f64_drop_read
    \/ remote_event /\ UNCHANGED ffi
    \/ remote_reply /\ UNCHANGED ffi
    \/ remote_close /\ UNCHANGED ffi

\* A host that uses the socket through mpv_socket_observe_property_f64 only.
SpecFfi == InitFfi /\ [][NextFfi]_vars

-----------------------------------------------------------------------------
(* Typed extraction alone. *)

NextTryFromValue == try_from /\ UNCHANGED ffi

\* Typed extraction alone.
SpecTryFromValue == InitTryFromValue /\ [][NextTryFromValue]_vars

-----------------------------------------------------------------------------
(* What the operations keep. *)

\* The last read was made by `by` (the correlator "send_recv_command" or the pull
\* "next") and gave a line of JSON.
ReadJson(by) == last_read.by = by /\ last_read.k = "line" /\ last_read.line.json

\* The last read was made by `by` and gave the event named tag.
ReadEvent(by, tag) == ReadJson(by) /\ last_read.line.event = Some(tag)

\* The operations that call send_recv_command whatever their arguments are.
SendOps == PlainOps \cup { "observe_property" }

\* C1: once a pull has read a shutdown event the socket is closed and stays closed;
\* every operation that returns from then on yields no item, and what it got from
\* send_recv_command, when it called it, is the socket-closed error.
C1_ShutdownClosesForGood ==
    [][ /\ (last_read'.by = "next" /\ last_read'.k = "line"
              /\ last_read'.line.event = Some("shutdown"))
            => (closed' /\ terminal' = "shutdown")
        /\ terminal = "shutdown"
            => /\ closed /\ closed'
               /\ ret' # ret
                  => /\ ret'.item = None
                     /\ ret'.sr \in { NoResult, SocketClosed }
                     /\ ret'.op \in SendOps => ret'.sr = SocketClosed ]_vars

\* A pull has read shutdown and a later command has failed with socket-closed.
C1_Witness ==
    /\ terminal = "shutdown" /\ closed /\ exhausted
    /\ ret.op = "get_property" /\ ret.sr = SocketClosed /\ ret.out = SocketClosed

\* The requests of `written` that carry the command named name, in the order written.
WrittenOf(name) == SelectSeq(written, LAMBDA w : w.command[1].v = name)

\* The observer ids of those requests.
ObserverIds(name) == [i \in 1..Len(WrittenOf(name)) |-> WrittenOf(name)[i].command[2].v]

\* The sequence 1, 2, .. n.
Ascending(n) == [i \in 1..n |-> i]

\* The statement of C2 as the specification has it: the drop of a subscription over
\* the observer ids 1..n issues exactly n unobserve commands, in ascending order,
\* unless the socket is closed.
C2_ExactlyN ==
    ret.op = "drop"
    => ObserverIds("unobserve_property")
          = IF closed THEN << >> ELSE Ascending(Len(WrittenOf("observe_property")))

\* C2: the drop of a subscription over the observer ids 1..n issues unobserve
\* commands for the ids 1, 2, .. in ascending order, one each, and stops after the
\* first one that fails: all n when none fails, none when the socket is closed.
C2_UnobserveUntilFailure ==
    LET n == Len(WrittenOf("observe_property"))
        m == Len(WrittenOf("unobserve_property"))
    IN  /\ ObserverIds("unobserve_property") = Ascending(m)
        /\ m > 0 => m <= n /\ (call.op = "drop" \/ ret.op = "drop")
        /\ ret.op = "drop"
           => /\ closed => m = 0
              /\ ~closed /\ ~IsErr(ret.sr) => m = n
              /\ ~closed /\ m < n => IsErr(ret.sr)
              /\ ret.out = Ok(Null)

\* A live subscription over two observer ids was dropped and both were unobserved.
C2_Witness ==
    /\ ret.op = "drop" /\ ~closed /\ IsOk(ret.sr)
    /\ ObserverIds("observe_property") = << 1, 2 >>
    /\ ObserverIds("unobserve_property") = << 1, 2 >>

\* The request send_recv_command has sent last.
LastWritten == written[Len(written)]

\* The correlator has read a line of JSON whose request_id is the one it sent.
ReadMatching ==
    /\ ReadJson("send_recv_command")
    /\ last_read.line.request_id = Some(LastWritten.request_id)

\* C3: send_recv_command returns on a line of JSON exactly when the request_id of
\* the line is the id of the request it sent: a line without request_id (an event)
\* or with another request_id (a late reply) is skipped and the call goes on
\* reading; a result that is Ok or an error of the remote comes from a line whose
\* request_id matches.
C3_OnlyTheMatchingReply ==
    /\ ReadJson("send_recv_command") => (pc = "await" <=> ~ReadMatching)
    /\ (IsOk(ret.sr) \/ ret.sr.e \in { "mpv", "unknown" }) => ReadMatching

\* The correlator has skipped a reply that carries the request_id of an earlier
\* request and goes on waiting for its own.
C3_Witness ==
    /\ pc = "await" /\ ReadJson("send_recv_command")
    /\ IsSome(last_read.line.request_id)
    /\ last_read.line.request_id # Some(call.request.request_id)

\* C4: on the reply whose request_id matches, send_recv_command returns Ok(data)
\* if and only if the error field is "success"; with any other error string it
\* returns the error of the remote that carries the string; either way it has
\* returned and the reply is the last line it read.
C4_SuccessOrRemoteError ==
    ReadMatching
    => /\ pc # "await"
       /\ LET error == last_read.line.error
          IN  /\ IsOk(ret.sr) <=> error = Some("success")
              /\ error = Some("success") => ret.sr = Ok(last_read.line.data)
              /\ IsSome(error) /\ error # Some("success")
                 => ret.sr = MpvError(Unwrap(error))

\* get_property has returned the 50.0 of the reply {"request_id":1,"error":"success",
\* "data":50.0} to the request with id 1.
C4_Witness ==
    /\ ReadMatching /\ LastWritten.request_id = I64(1)
    /\ last_read.line = ReplyLine(I64(1), Some("success"), Dbl(50))
    /\ ret.op = "get_property" /\ ret.sr = Ok(Dbl(50)) /\ ret.out = Ok(Dbl(50))

\* x + 1 in i64 arithmetic that wraps, limb by limb: the largest i64 is followed by
\* the smallest.
Succ64(x) ==
    IF x = I64Max THEN I64Min
    ELSE IF x[4] < Limb - 1 THEN << x[1], x[2], x[3], x[4] + 1 >>
    ELSE IF x[3] < Limb - 1 THEN << x[1], x[2], x[3] + 1, 0 >>
    ELSE IF x[2] < Limb - 1 THEN << x[1], x[2] + 1, 0, 0 >>
    ELSE IF x[1] < Limb - 1 THEN << x[1] + 1, 0, 0, 0 >>
    ELSE << 0, 0, 0, 0 >>

C6_ClosedSendsNothing ==
    [][ closed
        => /\ pc = "idle" /\ pc' = "idle"
           /\ last_request_id' = last_request_id /\ nreq' = nreq
           /\ written' \in { written, << >> }
           /\ pending' \subseteq pending
           /\ Len(inbound') >= Len(inbound)
           /\ SubSeq(inbound', 1, Len(inbound)) = inbound
           /\ last_read' \in { last_read, NoRead }
           /\ ret' # ret
              => /\ ret'.op # ""
                 /\ ret'.sr \in { NoResult, SocketClosed }
                 /\ ret'.op \in SendOps => ret'.out = SocketClosed
                 /\ ret'.op = "drop" => ret'.sr = NoResult ]_vars

\* The socket was closed by an end-file event and a set_property called after it
\* has returned the socket-closed error with nothing written.
C6_Witness ==
    /\ closed /\ terminal = "end-file"
    /\ ret.op = "set_property" /\ ret.out = SocketClosed
    /\ written = << >> /\ pending = { } /\ last_read = NoRead

\* The pull has read a property-change event for observer 1 of a subscription that
\* has registered it.
ReadChangeOfObserver1 ==
    /\ ReadEvent("next", "property-change")
    /\ last_read.line.id = Some(1)
    /\ iter # None /\ Unwrap(iter).num_observed_properties >= 1

\* The pull has returned the item `item`.
Yielded(item) == pc = "idle" /\ ret.op = "next" /\ ret.item = Some(item)

\* The statement of C7 as the specification has it: a property-change for observer
\* 1 whose data is not null yields one item that carries the data (the data itself
\* from observe_property, the name and the data from observe_properties).
C7_ItemCarriesData ==
    ReadChangeOfObserver1 /\ last_read.line.data # Null
    => LET data == last_read.line.data
       IN  \/ Yielded(Ok(data))
           \/ Yielded(Ok([name |-> Unwrap(last_read.line.name), data |-> data]))

\* C7: a property-change for observer 1 whose data is not null yields exactly one
\* item: from observe_properties the event with its name and data, from
\* observe_property::<T> the data converted to T, which is an error item when the data
\* is not of that type; when the line carries an error field other than "success"
\* the item is the error of the remote.  A property-change whose data is null
\* yields no item and the pull reads the next line.
C7_ItemOfPropertyChange ==
    ReadChangeOfObserver1
    => LET data == last_read.line.data
           error == last_read.line.error
           T == Unwrap(iter).T
       IN  IF IsSome(error) /\ error # Some("success")
           THEN Yielded(MpvError(Unwrap(error)))
           ELSE IF data = Null
           THEN pc = "next" /\ ret = NoRet
           ELSE IF T = "PropertyChangeEvent"
           THEN Yielded(Ok([name |-> Unwrap(last_read.line.name), data |-> data]))
           ELSE /\ Yielded(TryFromValue(T, data))
                /\ T = "f64" => Yielded(Ok(data))
                /\ T = "bool" => Yielded(TypeMismatch("bool"))

\* observe_property::<f64>(volume) has yielded the 52.0 of the line
\* {"event":"property-change","id":1,"name":"volume","data":52.0}.
C7_Witness ==
    /\ ReadChangeOfObserver1 /\ Unwrap(iter).T = "f64"
    /\ last_read.line = PropertyChangeLine(1, "volume", Dbl(52), None)
    /\ Yielded(Ok(Dbl(52)))

\* The pull of a subscription that registered the observer ids
\* 1..num_observed_properties, at least one, has read a property-change event whose
\* observer id is none of them.
ReadChangeOfStranger ==
    /\ ReadEvent("next", "property-change")
    /\ iter # None
    /\ Unwrap(iter).num_observed_properties >= 1
    /\ IsSome(last_read.line.id)
    /\ Unwrap(last_read.line.id) \notin 1..Unwrap(iter).num_observed_properties

\* The statement of C8: a property-change event for an observer id the subscription
\* did not register is consumed without an item; the pull reads the next line.
C8_OnlyRegisteredObservers ==
    ReadChangeOfStranger => pc = "next" /\ ret = NoRet

\* The statement of C9 as the specification has it: an event line that arrived
\* between the write of a command and the read of its matching reply is never the
\* line an item of a subscription is made of.
C9_LostWhenArrivedMeanwhile ==
    (ret.op = "next" /\ IsSome(ret.item) /\ last_read.by = "next") => ~last_read.during

\* In this step the correlator has read a line.
CorrelatorReads ==
    /\ pc = "await"
    /\ last_read'.by = "send_recv_command" /\ last_read'.k = "line"
    /\ last_read' # last_read \/ Len(inbound') < Len(inbound)

\* C9: an event line that the correlator reads while it awaits the reply to its
\* command is consumed and lost: the line is taken off the stream, the call goes on
\* awaiting its reply, and no result and no item is made of it; an item of a
\* subscription is only ever made of what a pull itself has read.
C9_EventsReadByCorrelatorAreLost ==
    [][ /\ CorrelatorReads
           => /\ inbound' = Tail(inbound)
              /\ last_read'.line \in Lines(Head(inbound))
              /\ (last_read'.line.json /\ IsSome(last_read'.line.event))
                 => /\ pc' = "await" /\ call' = call
                    /\ ret' = ret /\ ret.item = None /\ iter' = iter
        /\ (ret' # ret /\ IsSome(ret'.item))
           => pc = "next" /\ last_read'.by = "next" ]_vars

\* While observe_properties awaits the reply to its second observe command, the
\* correlator has read the property-change event of observer 1.
C9_Witness ==
    /\ pc = "await" /\ call.op = "observe_properties" /\ call.k = 2
    /\ ReadEvent("send_recv_command", "property-change")
    /\ last_read.line.id = Some(1)
    /\ ret.item = None

\* The statement of C10: once an iterator of the socket has returned None, every
\* call of client_name, get_time_us, get_property, set_property, get_version,
\* observe_property or observe_properties returns an error.
C10_EveryFurtherCallFails ==
    (exhausted /\ ret.op \in PlainOps \cup ObserveOps) => IsErr(ret.out)

\* C11: a subscription call over the properties p1..pn writes its observe commands
\* in the given order, the k-th with observer id k and property pk, the first of
\* every call with observer id 1; the (k+1)-th is written only after the success
\* reply to the k-th has been read, and the call that returns the sequence has
\* written exactly n of them.
C11_ObserveInOrder ==
    [][ /\ (call'.op \in ObserveOps /\ pc' = "await" /\ pc # "await")
           => LET k == call'.k
              IN  /\ Len(written') = k
                  /\ written'[k].command
                        = << Str("observe_property"), Num(k), Str(call'.props[k]) >>
                  /\ \A i \in 1..(k - 1) : written'[i] = written[i]
                  /\ k = 1 => pc = "idle"
                  /\ k > 1 => /\ pc = "observe_next" /\ call.props = call'.props
                              /\ ReadMatching /\ IsOk(ret.sr)
                              /\ last_read.line.error = Some("success")
        /\ (ret'.op \in ObserveOps /\ pc = "await" /\ IsOk(ret'.out))
           => /\ Len(written') = Len(call.props) /\ written' = written
              /\ iter' = Some(EventIter_new(Len(call.props), call.T)) ]_vars

\* observe_properties over volume and pause has returned its sequence: observer 1
\* is on volume, observer 2 on pause.
C11_Witness ==
    /\ pc = "idle" /\ ret.op = "observe_properties" /\ IsOk(ret.out)
    /\ Len(written) = 2
    /\ written[1].command = << Str("observe_property"), Num(1), Str("volume") >>
    /\ written[2].command = << Str("observe_property"), Num(2), Str("pause") >>
    /\ iter = Some(EventIter_new(2, "PropertyChangeEvent"))

\* C12: when an observe command of a subscription call fails, the call returns
\* that error at once and no sequence; the failing step writes nothing, so what
\* the call has written is the observe commands 1, 2, .. up to the failing one at
\* most, and no unobserve command for the observers registered before it.
C12_FirstFailureAborts ==
    [][ /\ (ret' # ret /\ IsErr(ret'.sr) /\ (call.op \in ObserveOps \/ ret'.op \in ObserveOps))
           => ret'.op \in ObserveOps
        /\ (ret' # ret /\ ret'.op \in ObserveOps /\ IsErr(ret'.out))
           => /\ ret'.out = ret'.sr
              /\ pc' = "idle" /\ iter = None /\ iter' = None
              /\ written' = IF pc = "idle" THEN << >> ELSE written
              /\ pc = "await" => Len(written') = call.k
              /\ pc = "observe_next" => Len(written') = call.k - 1
              /\ \A i \in 1..Len(written') :
                    /\ written'[i].command[1] = Str("observe_property")
                    /\ written'[i].command[2] = Num(i) ]_vars

\* The second observe command of observe_properties was answered with an error:
\* the call has returned it, observer 1 is registered and not unobserved.
C12_Witness ==
    /\ pc = "idle" /\ ret.op = "observe_properties" /\ iter = None
    /\ ret.out = MpvError("invalid parameter")
    /\ ObserverIds("observe_property") = << 1, 2 >>
    /\ ObserverIds("unobserve_property") = << >>
    /\ remote = "open"

\* The pull has read an event that EventResponse parses.
ReadParsedEvent ==
    /\ ReadJson("next") /\ IsSome(last_read.line.event)
    /\ IsOk(EventResponse_from_str(last_read.line))

\* The event the pull has read is one of the two that end the player.
ReadTerminalEvent ==
    \/ last_read.line.event = Some("shutdown")
    \/ last_read.line.event = Some("end-file") /\ last_read.line.reason = Some("quit")

\* C13: a pull that reads an end-file event with the reason quit sets closed as a
\* shutdown event does, and the pull returns None; an end-file event with another
\* reason or with none, and an event of any other kind, leaves closed false and
\* does not end the sequence: the pull yields its item or reads the next line.
C13_OnlyQuitEndsTheFile ==
    ReadParsedEvent
    => /\ closed <=> ReadTerminalEvent
       /\ ReadTerminalEvent
          => /\ terminal = Unwrap(last_read.line.event)
             /\ pc = "idle" /\ ret.op = "next"
             /\ last_read.line.error = None => ret.item = None /\ exhausted
       /\ ~ReadTerminalEvent
          => \/ pc = "next" /\ ret = NoRet
             \/ pc = "idle" /\ ret.op = "next" /\ IsSome(ret.item)

\* The pull has read an end-file event with the reason quit: the socket is closed
\* and the pull has returned None.
C13_Witness ==
    /\ last_read.by = "next" /\ last_read.line = EndFileLine(Some("quit"), None)
    /\ closed /\ terminal = "end-file"
    /\ pc = "idle" /\ ret.op = "next" /\ ret.item = None

C15_ClosedIsMonotone == ~closed /\ [][closed => closed']_vars

\* closed has been set, and a command and a teardown have run since: it is still set.
C15_Witness ==
    /\ closed /\ terminal = "shutdown" /\ iter = None
    /\ pc = "idle" /\ ret.op = "get_property" /\ ret.out = SocketClosed

\* C16: the drop of a subscription returns normally whatever its unobserve commands
\* return: an error of the remote, an I/O error or a parse error ends the loop and
\* is logged, the I/O error ERROR_NO_DATA is swallowed, and none reaches the
\* caller; the drop changes neither closed nor what the pulls have read.
C16_TeardownNeverFails ==
    [][ (ret' # ret /\ ret'.op = "drop")
        => /\ ret'.out = Ok(Null) /\ ret'.item = None
           /\ pc' = "idle" /\ iter # None /\ iter' = None
           /\ closed' = closed /\ exhausted' = exhausted /\ terminal' = terminal
           /\ ret'.sr.k \in { "None", "Ok", "Err" }
           /\ ret'.sr.k = "None"
              <=> pc = "idle" /\ (closed \/ Unwrap(iter).num_observed_properties = 0)
           /\ ret'.log <=> /\ IsErr(ret'.sr)
                           /\ \/ ret'.sr.e \in { "mpv", "parse", "unknown" }
                              \/ ret'.sr.e = "io" /\ ret'.sr.c # ERROR_NO_DATA
           /\ IsErr(ret'.sr) => ret'.sr.e \in { "mpv", "parse", "unknown", "io" } ]_vars

\* A drop whose unobserve command got an error reply of the remote: it has
\* returned normally and logged the error.
C16_Witness ==
    /\ pc = "idle" /\ ret.op = "drop" /\ iter = None
    /\ ret.sr = MpvError("invalid parameter") /\ ret.out = Ok(Null) /\ ret.log

\* A subscription was dropped on an open connection and each of its observers was
\* unobserved, a new one that does not observe a property of the dropped one was
\* started next, and a pull of the new one has returned a value made of a
\* property-change event.
YieldedAfterAbandoned ==
    /\ prev_written # None /\ Unwrap(prev_written).abandoned # << >>
    /\ iter # None /\ Observed(written) # << >>
    /\ ReadEvent("next", "property-change")
    /\ pc = "idle" /\ ret.op = "next" /\ IsSome(ret.item) /\ IsOk(Unwrap(ret.item))

\* The statement of C17: after a subscription on a property A was dropped and one
\* on a property B was started on the same connection, a value the new sequence
\* yields is made of a property-change of B, never of one of A.
C17_OnlyTheNewProperty ==
    YieldedAfterAbandoned
    => \E i \in 1..Len(Observed(written)) :
          last_read.line.name = Some(Observed(written)[i])

\* C18: connect opens the pipe at most 5 times: every open happens with 1 to 5
\* tries left; it opens again only after an open that failed with ERROR_PIPE_BUSY
\* and with a try left; a successful open, whichever of the 5 it is, returns the
\* socket; the fifth ERROR_PIPE_BUSY, and any other error at once, makes connect
\* return the connection error.
C18_AtMostFiveAttempts ==
    [][ pc = "connect"
        => /\ tries_left \in 1..5
           /\ pc' \in { "connect", "idle", "failed" }
           /\ pc' = "connect"
              => /\ ret'.op = "" /\ ret'.out = IoError(ERROR_PIPE_BUSY)
                 /\ tries_left' = tries_left - 1 /\ tries_left' >= 1
           /\ pc' = "idle"
              => /\ ret'.op = "connect" /\ ret'.out = Ok(Null)
                 /\ remote' = "open" /\ ~closed' /\ last_request_id' = RequestId_new
           /\ pc' = "failed"
              => /\ ret'.op = "connect" /\ ret'.out.e = "connect"
                 /\ ret'.out = ConnectError(ret'.out.c)
                 /\ remote' = "unconnected"
                 /\ IF ret'.out.c = ERROR_PIPE_BUSY
                    THEN tries_left = 1 /\ tries_left' = 0
                    ELSE tries_left' = tries_left ]_vars

\* The pipe was busy 5 times and connect has returned the connection error.
C18_Witness ==
    /\ pc = "failed" /\ tries_left = 0
    /\ ret = Ret("connect", NoResult, ConnectError(ERROR_PIPE_BUSY), None, FALSE)

\* C19: the request a command is written as is the object of the array
\* [name, parameters in the order of their declaration] and of the request's id:
\* client_name, get_time_us and get_version have no parameter, get_property has
\* the property, set_property the property and the value, observe_property the
\* observer id and the property, unobserve_property the observer id.
C19_WireForm ==
    pc = "await"
    => LET c == call.request.command
           w == LastWritten
       IN  /\ w.request_id = call.request.request_id
           /\ w.request_id = last_request_id
           /\ DOMAIN w = { "command", "request_id" }
           /\ c.tag \in { "ClientName", "GetTimeUs", "GetVersion", "GetProperty",
                          "SetProperty", "ObserveProperty", "UnobserveProperty" }
           /\ c.tag = "ClientName" => w.command = << Str("client_name") >>
           /\ c.tag = "GetTimeUs" => w.command = << Str("get_time_us") >>
           /\ c.tag = "GetVersion" => w.command = << Str("get_version") >>
           /\ c.tag = "GetProperty"
              => w.command = << Str("get_property"), Str(c.property) >>
           /\ c.tag = "SetProperty"
              => w.command = << Str("set_property"), Str(c.property), c.value >>
           /\ c.tag = "ObserveProperty"
              => w.command = << Str("observe_property"), Num(c.id), Str(c.property) >>
           /\ c.tag = "UnobserveProperty"
              => w.command = << Str("unobserve_property"), Num(c.id) >>
           /\ call.op = "client_name" <=> c.tag = "ClientName"
           /\ call.op = "get_time_us" <=> c.tag = "GetTimeUs"
           /\ call.op = "get_version" <=> c.tag = "GetVersion"
           /\ call.op = "get_property" <=> c.tag = "GetProperty"
           /\ call.op = "set_property" <=> c.tag = "SetProperty"
           /\ call.op \in ObserveOps <=> c.tag = "ObserveProperty"
           /\ call.op = "drop" <=> c.tag = "UnobserveProperty"

\* set_property(pause, true) has written {"command":["set_property","pause",true],
\* "request_id":1}.
C19_Witness ==
    /\ pc = "await" /\ call.op = "set_property"
    /\ written = << [command |-> << Str("set_property"), Str("pause"), Bool(TRUE) >>,
                     request_id |-> I64(1)] >>

\* C20: when send_recv_command reads the reply that carries its request id, whose
\* error is "success" and which has no data, it returns Ok with the absent value
\* (Null); set_property, which got it, returns Ok.
C20_SuccessWithoutData ==
    (ReadMatching /\ last_read.line.error = Some("success") /\ last_read.line.data = Null)
    => /\ ret.sr = Ok(Null)
       /\ pc # "await"
       /\ LastWritten.command[1] = Str("set_property")
          => pc = "idle" /\ ret.op = "set_property" /\ ret.out = Ok(Null)

\* set_property(pause, true) has read the success reply without data to its request
\* and has returned Ok.
C20_Witness ==
    /\ pc = "idle" /\ ret.op = "set_property" /\ ret.sr = Ok(Null) /\ ret.out = Ok(Null)
    /\ LastWritten = [command |-> << Str("set_property"), Str("pause"), Bool(TRUE) >>,
                      request_id |-> I64(1)]
    /\ last_read.by = "send_recv_command"
    /\ last_read.line = ReplyLine(I64(1), Some("success"), Null)


-----------------------------------------------------------------------------
(* C21 *)

\* C21: after a pull has ended the sequence because its read returned zero bytes,
\* closed is true.
C21_ZeroLengthReadCloses ==
    (pc = "idle" /\ ret.op = "next" /\ last_read.by = "next" /\ last_read.k = "zero")
    => closed


-----------------------------------------------------------------------------
(* C22 *)

\* The error string of the event the pull has read is one that makes an error item.
ReadEventWithError ==
    IsSome(last_read.line.error) /\ last_read.line.error # Some("success")

\* C22 as stated: the pull that reads a shutdown event, or an end-file event with
\* the reason quit, returns without an item for that line, whatever else the
\* line carries.
C22_TerminalEventEmitsNoItem ==
    (ReadParsedEvent /\ ReadTerminalEvent) => ret.item = None

\* C22: the pull that reads a shutdown event, or an end-file event with the reason
\* quit, sets closed and returns in that step, and never yields a value item for
\* the line. When the line carries no error string, or "success", the pull returns
\* None: the sequence ends. When it carries another error string, the pull yields
\* that one error item, with closed set all the same.
C22_TerminalEventEmitsNoValue ==
    (ReadParsedEvent /\ ReadTerminalEvent)
    => /\ closed
       /\ pc = "idle" /\ ret.op = "next"
       /\ IF ReadEventWithError
          THEN ret.item = Some(MpvError(Unwrap(last_read.line.error))) /\ ~exhausted
          ELSE ret.item = None /\ exhausted

\* The pull has read a shutdown event that carries an error string: it has set
\* closed and has yielded an error item.
C22_Witness ==
    /\ last_read.by = "next"
    /\ last_read.line = ShutdownLine(Some("property unavailable"))
    /\ closed /\ terminal = "shutdown"
    /\ pc = "idle" /\ ret.op = "next"
    /\ ret.item = Some(MpvError("property unavailable"))


-----------------------------------------------------------------------------
(* C23 *)

\* The observer ids of the unobserve commands in log, in the order written.
UnobservedIn(log) ==
    LET unobserves == SelectSeq(log, LAMBDA w : w.command[1] = Str("unobserve_property"))
    IN  [i \in 1..Len(unobserves) |-> unobserves[i].command[2].v]

\* The observer id whose unobserve command the teardown is at: the one it waits
\* for or writes next.
DropAt == IF pc = "idle" THEN 1 ELSE call.k

\* A step of the teardown in which send_recv_command returns an error.
UnobserveFails ==
    /\ \/ pc = "idle" /\ iter # None /\ ret'.op \in { "drop", "" }
       \/ pc \in { "await", "drop_next" } /\ call.op = "drop"
    /\ ret' # ret /\ IsErr(ret'.sr)

\* C23: when the unobserve command for the observer id k fails during the
\* teardown, by its write or by what is read for it, the teardown returns in that
\* step: the unobserve commands written are those of 1..k (1..k-1 when the write
\* of k failed), none is written for k+1..n, the remote holds no unobserve request
\* it has yet to answer, and no unobserve command is written once the sequence
\* is gone.
C23_NoUnobserveAfterFailure ==
    [][ /\ UnobserveFails
           => /\ pc' = "idle" /\ ret'.op = "drop" /\ iter' = None
              /\ DropAt <= Unwrap(iter).num_observed_properties
              /\ UnobservedIn(written')
                    = Ascending(IF pc = "await" THEN DropAt ELSE DropAt - 1)
              /\ \A w \in pending' :
                    w.command[1] = Str("unobserve_property") => w.command[2].v = DropAt
        /\ (iter = None /\ iter' = None /\ written' # written)
           => UnobservedIn(written') = << >> ]_vars

\* The teardown of a subscription over the observer ids 1 and 2 got an error reply
\* to the unobserve of 1 and has returned: no unobserve of 2 was written.
C23_Witness ==
    /\ pc = "idle" /\ ret.op = "drop" /\ iter = None
    /\ ret.sr = MpvError("invalid parameter")
    /\ ObserverIds("observe_property") = << 1, 2 >>
    /\ UnobservedIn(written) = << 1 >>
    /\ remote = "open" /\ pending = { }


-----------------------------------------------------------------------------
(* C24 *)

\* C24: after send_recv_command has failed because the write to the channel or a
\* read from it returned an I/O error, closed is true.
C24_ChannelErrorCloses ==
    (pc = "idle" /\ IsErr(ret.sr) /\ ret.sr.e = "io") => closed


-----------------------------------------------------------------------------
(* C25 *)

\* The line l is an event that EventResponse parses and that carries an error
\* string other than "success".
EventWithError(l) ==
    /\ l.json /\ IsSome(l.event) /\ IsOk(EventResponse_from_str(l))
    /\ IsSome(l.error) /\ l.error # Some("success")

\* The line l is one of the two events that end the player.
TerminalEvent(l) ==
    \/ l.event = Some("shutdown")
    \/ l.event = Some("end-file") /\ l.reason = Some("quit")

\* A pull reads an event that carries an error string other than "success".
PullReadsEventWithError ==
    /\ pc = "next" /\ last_read'.by = "next" /\ last_read'.k = "line"
    /\ EventWithError(last_read'.line)

\* C25 as stated: the pull that reads an event with an error string other than
\* "success" yields an error item and leaves closed as it was.
C25_ErrorEventLeavesClosed ==
    [][ PullReadsEventWithError
        => /\ ret'.item = Some(MpvError(Unwrap(last_read'.line.error)))
           /\ closed' = closed ]_vars

\* C25: the pull that reads an event with an error string other than "success"
\* returns in that step with an error item made of the string, and with no value
\* item; the error does not close the socket: closed is set by that pull exactly
\* when the event is a terminal one. When it is not, the sequence has not ended,
\* and the next pull goes on to read the line that follows.
C25_ErrorEventYieldsErrorItem ==
    [][ /\ PullReadsEventWithError
           => /\ pc' = "idle" /\ ret'.op = "next"
              /\ ret'.item = Some(MpvError(Unwrap(last_read'.line.error)))
              /\ closed' = TerminalEvent(last_read'.line)
              /\ inbound' = Tail(inbound) /\ iter' = iter /\ exhausted' = exhausted
        /\ ( /\ pc = "idle" /\ ret.op = "next" /\ last_read.by = "next"
             /\ last_read.k = "line" /\ EventWithError(last_read.line)
             /\ ~TerminalEvent(last_read.line)
             /\ next )
           => pc' = "next" /\ ret' = NoRet /\ ~exhausted' /\ inbound' = inbound ]_vars

\* The pull has read a property-change event that carries an error string: it has
\* yielded the error item, the socket is not closed and a line waits for the next
\* pull.
C25_Witness ==
    /\ last_read.by = "next"
    /\ last_read.line = PropertyChangeLine(1, "volume", Dbl(52), Some("property unavailable"))
    /\ pc = "idle" /\ ret.op = "next"
    /\ ret.item = Some(MpvError("property unavailable"))
    /\ ~closed /\ ~exhausted /\ iter # None /\ inbound # << >>


-----------------------------------------------------------------------------
(* C26 *)

\* The line l does not parse as an EventResponse: it is no JSON, it has no event
\* tag (a command reply), or its event does not parse.
Unparsable(l) == IsErr(EventResponse_from_str(l))

\* C26: a pull that reads a line that does not parse as an event envelope, be it
\* no JSON or a command reply, which has no event tag, returns in that step with
\* one error item, the parse error; it takes that one line off the stream, does
\* not end the sequence and leaves closed as it was, and the next pull goes on to
\* read the line that follows.
C26_UnparsableLineYieldsOneError ==
    [][ /\ ( /\ pc = "next" /\ last_read'.by = "next" /\ last_read'.k = "line"
             /\ \/ Unparsable(last_read'.line)
                \/ ~last_read'.line.json
                \/ last_read'.line.event = None )
           => /\ pc' = "idle" /\ ret' = Ret("next", NoResult, NoResult, Some(ParseError), FALSE)
              /\ closed' = closed /\ ~closed' /\ exhausted' = exhausted
              /\ inbound' = Tail(inbound) /\ iter' = iter
        /\ ( /\ pc = "idle" /\ ret.op = "next" /\ last_read.by = "next"
             /\ last_read.k = "line" /\ Unparsable(last_read.line)
             /\ next )
           => pc' = "next" /\ ret' = NoRet /\ ~exhausted' /\ inbound' = inbound ]_vars

\* A pull has read the reply to an earlier command, which that command left in the
\* stream, and has yielded the parse error; the sequence has not ended.
C26_Witness ==
    /\ pc = "idle" /\ ret = Ret("next", NoResult, NoResult, Some(ParseError), FALSE)
    /\ last_read.by = "next" /\ last_read.k = "line"
    /\ last_read.line.json /\ last_read.line.event = None
    /\ IsSome(last_read.line.request_id)
    /\ ~closed /\ ~exhausted /\ iter # None


-----------------------------------------------------------------------------
(* C27 *)

\* C27: an open of connect whose result is an error other than ERROR_PIPE_BUSY, an
\* error without an OS code included, makes connect return the connection error
\* in that step, whether it is the first open or follows busy results: no try is
\* taken from tries_left, nothing is opened, and connect, once it has failed,
\* takes no further step.
C27_OtherErrorFailsAtOnce ==
    [][ /\ (pc = "connect" /\ IsErr(ret'.out) /\ ret'.out.c # ERROR_PIPE_BUSY)
           => /\ pc' = "failed" /\ ret'.op = "connect"
              /\ ret'.out = ConnectError(ret'.out.c)
              /\ ret'.out.c \in { ERROR_FILE_NOT_FOUND, 0 }
              /\ tries_left' = tries_left /\ tries_left \in 1..5
              /\ remote' = "unconnected" /\ written' = << >>
        /\ pc = "failed" => pc' = "failed" /\ ret' = ret ]_vars

\* The pipe was busy twice, the third open failed with another error and connect
\* has returned the connection error with three tries left.
C27_Witness ==
    /\ pc = "failed" /\ tries_left = 3
    /\ ret = Ret("connect", NoResult, ConnectError(ERROR_FILE_NOT_FOUND), None, FALSE)
    /\ remote = "unconnected"


-----------------------------------------------------------------------------
(* C28 *)

\* C28: when send_recv_command reads the reply that carries its request id and has
\* neither an error field nor data, it returns the error of an unknown response:
\* it does not go on reading, and it returns neither Ok nor an error of the remote.
\* The command that called it returns that error; a teardown logs it.
C28_UnknownResponse ==
    (ReadMatching /\ last_read.line.error = None /\ last_read.line.data = Null)
    => /\ pc = "idle"
       /\ ret.sr = UnknownResponse /\ ~IsOk(ret.sr) /\ ret.sr # MpvError("")
       /\ ret.op \in PlainOps \cup ObserveOps \cup { "drop" }
       /\ ret.op \in PlainOps \cup ObserveOps => ret.out = UnknownResponse
       /\ ret.op = "drop" => ret.out = Ok(Null) /\ ret.log

\* get_property has read the reply {"request_id":1} to its request and has returned
\* the error of an unknown response.
C28_Witness ==
    /\ pc = "idle" /\ ret.op = "get_property"
    /\ ret.sr = UnknownResponse /\ ret.out = UnknownResponse
    /\ LastWritten.request_id = I64(1)
    /\ last_read.by = "send_recv_command"
    /\ last_read.line = ReplyLine(I64(1), None, Null)


-----------------------------------------------------------------------------
(* C29 *)

\* This step takes a line off the stream, or gets a zero-length read or a read
\* error from a stream that is empty and whose remote is gone; `by` is the reader.
ReadsIn(by) ==
    /\ last_read'.by = by
    /\ \/ /\ last_read'.k = "line"
          /\ inbound # << >> /\ inbound' = Tail(inbound)
          /\ last_read'.line \in Lines(Head(inbound))
       \/ /\ last_read'.k \in { "zero", "error" }
          /\ inbound = << >> /\ remote \in { "gone", "eof" }

\* The call waits in a read, the channel is open and nothing waits to be read.
Blocked == pc \in { "await", "next" } /\ inbound = << >> /\ remote = "open"

\* C29: no read gives up by itself. send_recv_command, once it has written its
\* request, returns only in a step in which it reads the reply that carries its
\* request id, a line that does not parse, a zero-length read or a read error; it
\* returns an I/O error without a read only when the write failed on a channel
\* that is not open. A pull that has begun to read returns only in a step in which
\* it reads a line, a zero-length read or a read error. While the channel is open
\* and empty, a call that waits in a read takes no step: it stays pending until
\* the remote sends a line or closes the channel.
C29_NoTimeout ==
    [][ /\ (pc = "await" /\ pc' # "await")
           => /\ ReadsIn("send_recv_command")
              /\ IF last_read'.k = "line" /\ last_read'.line.json
                 THEN last_read'.line.request_id = Some(call.request.request_id)
                 ELSE ret'.sr.e \in { "io", "parse" }
        /\ (pc = "await" /\ pc' = "await" /\ last_read' # last_read)
           => ReadsIn("send_recv_command") /\ last_read'.k = "line"
        /\ (pc = "next" /\ pc' # "next")
           => ReadsIn("next") /\ pc' = "idle" /\ ret'.op = "next"
        /\ (pc # "await" /\ ret' # ret /\ ret'.sr.e = "io")
           => remote # "open" /\ last_read' = NoRead /\ written' \in { written, << >> }
        /\ Blocked
           => /\ pc' = pc /\ ret' = ret /\ call' = call /\ iter' = iter
              /\ last_read' = last_read /\ closed' = closed
              /\ inbound' # << >> \/ remote' = "gone" ]_vars

\* send_recv_command has skipped a line that was not the reply to its request and
\* waits in its next read; the channel is open and empty.
C29_Witness ==
    /\ pc = "await" /\ inbound = << >> /\ remote = "open"
    /\ last_read.by = "send_recv_command" /\ last_read.k = "line"
    /\ ret = NoRet


-----------------------------------------------------------------------------
(* C30 *)

\* C30: a pull made while closed is true returns None at once: it does not go to
\* a read, takes no line off the stream and does not wait for one. The pull that
\* reads a terminal event takes that one line and returns in the same step,
\* whether or not a line follows; when the event carries no error the sequence
\* has ended with it. Once closed is true no line is read: what is in the stream,
\* and what arrives later, stays there.
C30_ClosedPullReadsNothing ==
    [][ /\ (closed /\ next)
           => /\ pc' = "idle" /\ ret' = Ret("next", NoResult, NoResult, None, FALSE)
              /\ exhausted' /\ last_read' = NoRead
              /\ inbound' = inbound /\ remote' = remote /\ iter' = iter
        /\ (pc = "next" /\ ~closed /\ closed')
           => /\ last_read'.by = "next" /\ last_read'.k = "line"
              /\ TerminalEvent(last_read'.line)
              /\ inbound' = Tail(inbound)
              /\ pc' = "idle" /\ ret'.op = "next"
              /\ ~EventWithError(last_read'.line) => ret'.item = None /\ exhausted'
        /\ closed
           => /\ pc = "idle" /\ pc' = "idle"
              /\ Len(inbound') >= Len(inbound)
              /\ SubSeq(inbound', 1, Len(inbound)) = inbound
              /\ last_read'.k = "none" \/ last_read' = last_read ]_vars

\* A pull was made on a closed socket while a line sent after the terminal event
\* waited in the stream: it has returned None without a read and the line is
\* still there.
C30_Witness ==
    /\ closed /\ terminal = "shutdown" /\ iter # None
    /\ pc = "idle" /\ ret = Ret("next", NoResult, NoResult, None, FALSE)
    /\ last_read = NoRead /\ exhausted
    /\ inbound # << >>


-----------------------------------------------------------------------------
(* C32 *)

\* The value that was extracted, the type it was extracted as, and the result.
Extracted == call.request.command.value
ExtractedAs(T) == pc = "idle" /\ ret.op = "try_from" /\ call.T = T

\* C32: typed extraction goes by the variant of the value. As bool it succeeds
\* exactly on a boolean, as String exactly on a string, and gives the value; as
\* i64 or u64 it succeeds only on an integer (as u64 on every integer that is not
\* negative, as i64 on every integer that is not above i64::MAX); as f64 it
\* succeeds exactly on an integer or a float and gives the number as a float; as
\* Value it always succeeds and gives the value unchanged. Every failure is the
\* type-mismatch error, and the absent value (null) fails as every type but Value.
C32_ExtractionByVariant ==
    (pc = "idle" /\ ret.op = "try_from")
    => LET value == Extracted
           result == ret.out
           integer == value.t \in { "Int", "UInt" }
       IN  /\ ExtractedAs("bool") => (IsOk(result) <=> value.t = "Bool")
           /\ ExtractedAs("String") => (IsOk(result) <=> value.t = "String")
           /\ (ExtractedAs("bool") \/ ExtractedAs("String")) /\ IsOk(result)
              => result = Ok(value)
           /\ ExtractedAs("i64")
              => /\ IsOk(result) => integer /\ result = Ok(value)
                 /\ value.t = "Int" => IsOk(result)
           /\ ExtractedAs("u64")
              => /\ IsOk(result) => integer /\ result = Ok(value)
                 /\ (value.t = "UInt" \/ (value.t = "Int" /\ value.v >= 0)) => IsOk(result)
           /\ ExtractedAs("f64")
              => /\ IsOk(result) <=> (integer \/ value.t = "Float")
                 /\ IsOk(result) => result.v.t = "Float" /\ result.v.v = value.v
           /\ ExtractedAs("Value") => result = Ok(value)
           /\ IsOk(result) \/ (IsErr(result) /\ result.e = "type")
           /\ (value = Null /\ call.T # "Value") => IsErr(result) /\ result.e = "type"

\* The integer 52 was extracted as f64: the result is the float 52.0.
C32_Witness ==
    /\ ExtractedAs("f64") /\ Extracted = Num(52)
    /\ ret.out = Ok(Dbl(52))


-----------------------------------------------------------------------------
(* C33 *)

\* C33: no step of send_recv_command changes closed. A shutdown event, or an
\* end-file event with the reason quit, that the correlator reads while it awaits
\* a reply is skipped as every line without the request id is: the line is taken
\* off the stream, the call goes on waiting and closed stays false. closed changes
\* only in the read of a pull.
C33_CorrelatorLeavesClosed ==
    [][ /\ pc \in { "await", "observe_next", "drop_next" } => closed' = closed /\ ~closed
        /\ ret'.sr # NoResult /\ ret' # ret => closed' = closed
        /\ ( /\ pc = "await" /\ last_read'.by = "send_recv_command"
             /\ Len(inbound') < Len(inbound)
             /\ last_read'.k = "line" /\ last_read'.line.json
             /\ TerminalEvent(last_read'.line) )
           => /\ pc' = "await" /\ call' = call /\ ret' = ret
              /\ inbound' = Tail(inbound)
              /\ ~closed' /\ terminal' = terminal
        /\ closed' # closed => pc = "next" /\ last_read'.by = "next" ]_vars

\* The teardown of a subscription has read a shutdown event while it waited for
\* the reply to its unobserve command: it waits on and the socket is not closed.
C33_Witness ==
    /\ pc = "await" /\ call.op = "drop"
    /\ last_read.by = "send_recv_command" /\ last_read.line = ShutdownLine(None)
    /\ ~closed /\ terminal = ""


-----------------------------------------------------------------------------
(* C34 *)

\* C34: when a read of send_recv_command returns zero bytes, the end of the
\* stream, the call returns in that step with an error, the parse error of the
\* empty line, and reads no more: no call waits for a reply after a zero-length
\* read. closed is left as it was.
C34_EndOfStreamFailsTheCall ==
    [][ /\ ~(pc = "await" /\ last_read.k = "zero")
        /\ (pc = "await" /\ last_read'.k = "zero")
           => /\ last_read'.by = "send_recv_command"
              /\ inbound = << >> /\ remote \in { "gone", "eof" } /\ remote' = "eof"
              /\ pc' = "idle" /\ call' = NoCall
              /\ ret'.sr = ParseError /\ IsErr(ret'.sr)
              /\ closed' = closed ]_vars

\* get_property has got a zero-length read while it waited for its reply and has
\* returned the parse error.
C34_Witness ==
    /\ pc = "idle" /\ ret.op = "get_property"
    /\ ret.sr = ParseError /\ ret.out = ParseError
    /\ last_read.by = "send_recv_command" /\ last_read.k = "zero"
    /\ remote = "eof" /\ written # << >>


-----------------------------------------------------------------------------
(* C36 *)

\* The steps in which the client takes the first line off the stream.
TakesLine == inbound # << >> /\ inbound' = Tail(inbound) /\ last_read'.k = "line"

\* C36: a line that is no JSON, read by send_recv_command while it awaits its
\* reply, is not skipped: the call returns the parse error in that step. It has
\* taken that one line off the stream and nothing else: closed is unchanged, the
\* request stays with the remote if it has not been answered, and a reply that
\* waits behind the line stays in the stream. A reply leaves the stream only by
\* a read, of the correlator or of a pull, that gets it as its line.
C36_UnparsableLineFailsTheCall ==
    [][ /\ ( /\ pc = "await" /\ TakesLine
             /\ last_read'.by = "send_recv_command" /\ ~last_read'.line.json )
           => /\ pc' = "idle" /\ call' = NoCall
              /\ ret'.sr = ParseError
              /\ closed' = closed
              /\ pending' = pending
              /\ Head(inbound).reply = None
        /\ (inbound # << >> /\ IsSome(Head(inbound).reply) /\ inbound' # inbound)
           => \/ /\ TakesLine
                 /\ last_read'.by \in { "send_recv_command", "next" }
                 /\ last_read'.line \in Replies(Unwrap(Head(inbound).reply))
              \/ /\ Len(inbound') = Len(inbound) + 1
                 /\ SubSeq(inbound', 1, Len(inbound)) = inbound ]_vars

\* get_property has read a line that is no JSON and has returned the parse error;
\* the reply to its request waits in the stream.
C36_Witness ==
    /\ pc = "idle" /\ ret.op = "get_property" /\ ret.sr = ParseError
    /\ last_read.by = "send_recv_command" /\ last_read.line = Malformed
    /\ ~closed
    /\ inbound # << >> /\ Head(inbound).reply = Some(LastWritten)


-----------------------------------------------------------------------------
(* C37 *)

\* C37: a command that send_recv_command rejects because closed is set leaves the
\* request-id counter as it was. A command that passes the closed check takes the
\* next request id, one step of the counter, whether its write succeeds or
\* fails; a failure of a later read does not give the id back. The counter
\* changes in no other step.
C37_RequestIdConsumed ==
    [][ /\ (ret' # ret /\ ret'.sr = SocketClosed)
           => closed /\ last_request_id' = last_request_id /\ nreq' = nreq
        /\ (pc' = "await" /\ pc # "await")
           => /\ ~closed /\ last_request_id' = Succ64(last_request_id)
              /\ LastWritten'.request_id = last_request_id'
        /\ (pc # "await" /\ ret' # ret /\ IsErr(ret'.sr) /\ ret'.sr.e = "io")
           => /\ ~closed /\ last_request_id' = Succ64(last_request_id)
              /\ last_read' = NoRead /\ Len(written') <= Len(written)
        /\ pc = "await" => last_request_id' = last_request_id
        /\ last_request_id' # last_request_id
           => ~closed /\ last_request_id' = Succ64(last_request_id) /\ nreq' = nreq + 1 ]_vars

\* The write of the first command failed: the request id 1 is used up and nothing
\* was written.
C37_Witness ==
    /\ pc = "idle" /\ ret.op = "get_property"
    /\ ret.sr = IoError(ERROR_NO_DATA) /\ last_read = NoRead
    /\ ~closed /\ last_request_id = I64(1) /\ nreq = 1
    /\ written = << >> /\ prev_written = None


-----------------------------------------------------------------------------
(* C38 *)

\* The item the adaptors of the live sequence make of the line l.
ItemOf(l) ==
    LET out == EventIter_next([k |-> "line", line |-> l, c |-> 0, during |-> FALSE]).out
    IN  Adapt(Unwrap(iter).T, Unwrap(out))

\* C38: the stream is read in the order of arrival and each line once. A line
\* arrives at the end of the stream; every step that takes a line takes exactly
\* the oldest one, and it is a read of the correlator, when a call waits for its
\* reply, or of a pull, when a pull is at its read; no other step takes or moves a
\* line. A pull yields an item only in the step of its read: the item made of the
\* line it takes, or the error of a read that failed and took nothing. The items
\* of a sequence come in the order of their lines, none twice and none out of
\* turn.
C38_EachLineOnceInOrder ==
    [][ /\ inbound' # inbound
           => \/ /\ TakesLine
                 /\ last_read'.line \in Lines(Head(inbound))
                 /\ \/ pc = "await" /\ last_read'.by = "send_recv_command"
                    \/ pc = "next" /\ last_read'.by = "next"
              \/ /\ pc' = pc /\ last_read' = last_read /\ ret' = ret
                 /\ Len(inbound') = Len(inbound) + 1
                 /\ SubSeq(inbound', 1, Len(inbound)) = inbound
        /\ (last_read' # last_read /\ last_read'.k = "line") => TakesLine
        /\ (ret' # ret /\ IsSome(ret'.item))
           => /\ pc = "next" /\ pc' = "idle" /\ ret'.op = "next"
              /\ last_read'.by = "next"
              /\ \/ TakesLine /\ ret'.item = ItemOf(last_read'.line)
                 \/ /\ last_read'.k = "error" /\ inbound' = inbound
                    /\ ret'.item = Some(IoError(last_read'.c))
        /\ (pc = "next" /\ TakesLine /\ IsSome(ItemOf(last_read'.line)))
           => ret'.item = ItemOf(last_read'.line) /\ pc' = "idle" ]_vars

\* A pull has yielded the value of the older of two lines that waited in the
\* stream; the newer one is still there.
C38_Witness ==
    /\ pc = "idle" /\ ret.op = "next"
    /\ last_read.by = "next"
    /\ last_read.line = PropertyChangeLine(1, "volume", Dbl(52), None)
    /\ ret.item = Some(Ok(Dbl(52)))
    /\ Len(inbound) = 1


-----------------------------------------------------------------------------
(* C35 *)

\* A call is in send_recv_command or between two turns of its loop.
Running == pc \in { "await", "observe_next", "drop_next" }

\* The requests the operation under way has still to write after the one it
\* awaits the reply of.
RequestsLeft ==
    LET total == IF call.op \in ObserveOps THEN Len(call.props)
                 ELSE IF call.op = "drop" /\ iter # None
                      THEN Unwrap(iter).num_observed_properties
                 ELSE call.k
    IN  IF pc = "await" THEN total - call.k ELSE total - call.k + 1

\* C35: with a remote that answers, every send_recv_command returns: a call that
\* awaits its reply leaves the wait, whatever events the remote sends before the
\* reply. Hence every operation under way completes, observe_property,
\* observe_properties and the drop of the sequence among them, when the requests
\* it has still to write are within MaxRequests.
C35_EveryCallReturns ==
    /\ (pc = "await") ~> (pc # "await")
    /\ (Running /\ nreq + RequestsLeft <= MaxRequests) ~> (pc = "idle")

\* The drop of a sequence over two properties has completed with the remote
\* open: both subscriptions and both unobserve commands were answered.
C35_Witness ==
    /\ pc = "idle" /\ ret.op = "drop" /\ IsOk(ret.sr)
    /\ Len(written) = 2 /\ nreq = 4
    /\ remote = "open"


-----------------------------------------------------------------------------
(* C31 *)

\* A pull of the iterator returns in this step.
PullReturns == pc = "next" /\ pc' = "idle" /\ ret'.op = "next"

\* socket.observe_property returns in this step: from its read, or at once from
\* the call, which the function makes unless it aborts or rejects the property.
ObserveReturns ==
    /\ pc' = "idle" /\ ret'.op = "observe_property"
    /\ \/ ffi.at = "observe" /\ pc = "await"
       \/ /\ ffi.at \in { "entry", "returned" }
          /\ ffi'.at \notin { "entry", "aborted" }
          /\ ffi' # ffi
          /\ ffi'.result # InvalidProperty

\* C31: mpv_socket_observe_property_f64 calls the callback once for each value
\* the iterator yields, in the order of the items, and with that value; it calls
\* it at no other time. An error of socket.observe_property is returned at once
\* as the error object; an error item ends the loop and is the error object the
\* function returns. Once there is an error the callback is not called again, no
\* further item is pulled and the error object stays the same until the function
\* has returned. The function returns only with the iterator dropped: the drop
\* of the iterator has run to its end. It returns the null pointer only when the
\* iterator has returned None and no error came before.
C31_CallbackPerItemUntilError ==
    [][ /\ (PullReturns /\ IsSome(ret'.item) /\ IsOk(Unwrap(ret'.item)))
           => /\ ffi'.callbacks = Append(ffi.callbacks, Unwrap(ret'.item).v)
              /\ ffi'.result = None /\ ffi'.at = "for"
        /\ ffi'.callbacks # ffi.callbacks
           => \/ PullReturns /\ IsSome(ret'.item) /\ IsOk(Unwrap(ret'.item))
              \/ ffi.at = "returned" /\ ffi'.callbacks = << >>
        /\ (PullReturns /\ IsSome(ret'.item) /\ IsErr(Unwrap(ret'.item)))
           => ffi'.result = Some(Unwrap(ret'.item)) /\ ffi'.at = "drop"
        /\ (ObserveReturns /\ IsErr(ret'.out))
           => ffi'.result = Some(ret'.out) /\ ffi'.at = "returned" /\ iter' = None
        /\ (IsSome(ffi.result) /\ ffi.at # "returned")
           => /\ ffi'.callbacks = ffi.callbacks /\ ffi'.result = ffi.result
              /\ ffi'.at \in { "drop", "dropping", "returned" }
              /\ pc' # "next"
        /\ ffi'.at = "returned" => iter' = None /\ pc' = "idle"
        /\ (ffi'.at = "returned" /\ ffi.at \in { "drop", "dropping" })
           => ret'.op = "drop" /\ ffi'.result = ffi.result
        /\ (ffi'.at \in { "drop", "dropping", "returned" } /\ ffi'.result = None
            /\ ffi.at \in { "for", "pull" })
           => ret'.op = "next" /\ ret'.item = None /\ pc' = "idle" ]_vars

\* The function has returned the error of an error item: it had called the
\* callback once before, the item was an event that carries an error, and the
\* drop of the iterator had its unobserve command answered.
C31_Witness ==
    /\ ffi.at = "returned"
    /\ Len(ffi.callbacks) = 1
    /\ IsSome(ffi.result) /\ Unwrap(ffi.result).e = "mpv"
    /\ ret.op = "drop" /\ IsOk(ret.sr)
    /\ iter = None

=============================================================================
